---- MODULE Spec2Model ----
(***************************************************************************)
(* A model of the failure-handling core of the TraudeZ99-3 trading bot:    *)
(*   - RateLimiter, CircuitBreaker (src/exchange/rate-limiter.ts, held in  *)
(*     src/unnamed/part_005),                                              *)
(*   - the reconnecting stream clients (src/src/exchange/base.ts,          *)
(*     binance.ts, kraken.ts),                                             *)
(*   - the candle backfill (src/src/backtesting/runner.ts, second half)    *)
(*     over the candle repository (src/src/persistence/.../candles.ts).    *)
(*                                                                         *)
(* JavaScript runs one handler at a time: every action below is the        *)
(* synchronous run of one handler up to its next await.  Each component    *)
(* has its own specification (SpecRL, SpecCB, SpecWS, SpecBF); the         *)
(* variables of the other components stay at their initial values.         *)
(***************************************************************************)
EXTENDS Integers, Sequences, FiniteSets, TLC

VARIABLES
  now,            \* Date.now(): in ms, in days for the backfill
  \* ---- RateLimiter
  rlConfig,       \* RateLimiterConfig
  requests,       \* RateLimiter.requests: admission timestamps
  queue,          \* RateLimiter.queue: waiting calls, oldest first
  processing,     \* RateLimiter.processing
  drainPc,        \* where processQueue is suspended: idle | sleeping | awaiting
  drainWake,      \* the time the sleep() of processQueue was set to end
  drainCall,      \* the queued call processQueue awaits (0: none)
  nextCall,       \* the next caller of execute (callers are numbered as they arrive)
  callState,      \* per caller: new | running | queued | resolved | failed |
                  \*             rejected_limit | rejected_full
  admitLog,       \* history: <<caller, timestamp, admitted by>> of every admission
  \* ---- CircuitBreaker
  cbConfig,       \* CircuitBreakerConfig
  state,          \* CircuitBreaker.state
  failures,       \* CircuitBreaker.failures
  successes,      \* CircuitBreaker.successes
  lastFailure,    \* CircuitBreaker.lastFailure (0: null)
  inflight,       \* wrapped calls invoked by execute and not settled yet
  cbCalls,        \* history: number of execute calls made
  invocations,    \* history: number of times a wrapped function was invoked
  cbLast,         \* history: what the last breaker operation was and did
  consecFailures, \* history: failures observed since the last success or reset
  hoSuccesses,    \* history: successes observed since half-open was entered
  \* ---- stream clients (BaseExchangeClient, BinanceClient, KrakenClient)
  venue,             \* which client is running: "binance" | "kraken"
  connectionStatus,  \* BaseExchangeClient.connectionStatus
  statusHandlers,    \* BaseExchangeClient.statusHandlers: is a handler registered
  candleHandlers,    \* BaseExchangeClient.candleHandlers: the keys with a handler
  tradeHandlers,     \* BaseExchangeClient.tradeHandlers: the keys with a handler
  sockets,           \* the WebSocket objects created and not yet closed
  wsConnections,     \* BinanceClient: BaseExchangeClient.wsConnections, key -> socket (0: none)
  ws,                \* KrakenClient.ws: the socket in use (0: null)
  subscriptions,     \* KrakenClient.subscriptions: keys in insertion order
  reconnectAttempts, \* reconnectAttempts of the client
  timers,            \* pending setTimeout callbacks of handleReconnect
  lastNotified,      \* history: the last status passed to the status handlers
  attemptsMade,      \* history: connections opened since the last open by timers set since then
  scheduled,         \* history: reconnect timers set since the last open
  exhausted,         \* history: handleReconnect gave up and no connection opened since
  closed,            \* history: close() has completed and no subscribe call followed
  userOps,           \* history: number of calls made by the client's user
  \* ---- backfill
  venueCandles,      \* the timestamps of the candles the venue holds
  candles,           \* the candles table: rows in insertion order
  syncStatus,        \* the sync_status row
  bfOptions,         \* BackfillOptions: since, until, batchSize
  bfPc,              \* where backfillCandles is suspended: idle | fetching | sleeping
  bfUntil,           \* backfillCandles' until, with its default applied
  currentSince,      \* backfillCandles' currentSince
  totalFetched,      \* backfillCandles' totalFetched
  candles0,          \* history: the candles table before the first run
  runLog,            \* history: the BackfillResult of every finished run
  currentUntil,      \* backfillBackwards' currentUntil
  targetSince,       \* backfillBackwards' targetSince
  thrown,            \* history: the message of the exception a run last threw
  \* ---- candle writes of the feed manager and the backfill
  lastCandles,       \* FeedManager.lastCandles, for the one feed
  lastWritten,       \* history: per timestamp, the close of the latest write (or Null)
  dbWrites,          \* history: number of writing calls made
  handled,           \* history: the last handleCandle call: its candle and its steps
  \* ---- ProtectedClient
  awaited,           \* what became of the call processQueue awaits, at the breaker
  \* ---- FeedManager, for one feed key
  feeds,             \* FeedManager.feeds: the feed's config, or NoFeed
  activeStreams,     \* FeedManager.activeStreams has the key
  clientHandler,     \* the client's candleHandlers entry: the config its closure holds
  addPc,             \* addFeed: idle | backfilling (awaiting this.backfill)
  startPc,           \* startStream: idle | subscribing (awaiting subscribeCandles)
  stopPc,            \* idle | stopStream | removeFeed: who awaits unsubscribeCandles
  fmOps,             \* history: number of calls made by the manager's user
  removed,           \* history: removeFeed has completed and no addFeed followed
  handledAfterRemove,    \* history: a candle was handled while removed
  handledDuringBackfill, \* history: a candle was handled while addFeed awaited
  conn,              \* the client's socket of the stream: none | connecting | retrying | open
  \* ---- KrakenClient frame dispatch
  krakenSubs,        \* KrakenClient.subscriptions: a Map, in insertion order
  lastFrame,         \* the last data frame received, and the stream it was sent for
  delivered          \* the handler the last frame went to (none: no handler ran)

rlVars == <<rlConfig, requests, queue, processing, drainPc, drainWake, drainCall,
            nextCall, callState, admitLog>>
cbVars == <<cbConfig, state, failures, successes, lastFailure, inflight, cbCalls,
            invocations, cbLast, consecFailures, hoSuccesses>>
wsVars == <<venue, connectionStatus, statusHandlers, candleHandlers, tradeHandlers, sockets,
            wsConnections, ws, subscriptions, reconnectAttempts, timers, lastNotified,
            attemptsMade, scheduled, exhausted, closed, userOps>>
bfVars == <<venueCandles, candles, syncStatus, bfOptions, bfPc, bfUntil, currentSince,
            totalFetched, candles0, runLog, currentUntil, targetSince, thrown>>
dbVars == <<lastCandles, lastWritten, dbWrites, handled>>
pcVars == <<awaited>>
fmVars == <<feeds, activeStreams, clientHandler, addPc, startPc, stopPc, fmOps, removed,
            handledAfterRemove, handledDuringBackfill, conn>>
kxVars == <<krakenSubs, lastFrame, delivered>>
vars == <<now, rlVars, cbVars, wsVars, bfVars, dbVars, pcVars, fmVars, kxVars>>

(***************************************************************************)
(* Bounds of the model.                                                    *)
(***************************************************************************)
\* The clock advances in steps of TickMs, from StartTicks ticks up to MaxTicks ticks.
TickMs == 10
MaxTicks == 7
\* Callers of RateLimiter.execute in one run.
MaxCalls == 4
\* maxRequests ranges over 1..MaxMaxRequests, windowMs over 0..MaxWindowTicks ticks,
\* maxQueueSize over 0 (not set) ..MaxMaxQueueSize.
MaxMaxRequests == 2
MaxWindowTicks == 2
MaxMaxQueueSize == 1
\* failureThreshold and successThreshold range over 1..MaxThreshold, resetTimeoutMs
\* over 1..MaxResetTicks ticks; at most MaxCbCalls execute calls, MaxInflight at once.
MaxThreshold == 2
MaxResetTicks == 2
MaxCbCalls == 5
MaxInflight == 2
\* WebSocket objects alive at once, and reconnect timers pending at once.
MaxSockets == 2
MaxTimers == 1
\* Calls the user of a stream client makes in one run.
MaxUserOps == 2
\* Backfill: candle timestamps 1..MaxTs, page sizes 1..MaxBatchSize, MaxRuns runs with
\* up to MaxBfTicks days between them, the explicit since and until.
MaxTs == 4
MaxBatchSize == 2
MaxRuns == 2
MaxBfTicks == 1
MaxDbWrites == 2
\* Streams subscribed at once on one KrakenClient.
MaxSubs == 2
\* Candles a run fetches from a venue that may answer with any page.
MaxFetched == 3
\* Calls the user of a FeedManager makes in one run.
MaxFmOps == 3
SinceAt == 2
UntilAt == 3

\* Date.now() is never 0: the clock starts one tick after the epoch.
StartTime == TickMs
MaxTime == MaxTicks * TickMs

Tick ==
  /\ now + TickMs <= MaxTime
  /\ now' = now + TickMs

(***************************************************************************)
(* RateLimiter (src/unnamed/part_005, lines 37-131)                        *)
(***************************************************************************)
\* sleep(waitTime) in processQueue waits 10 ms past the expiry of the oldest entry.
SleepSlackMs == 10

RLConfigs ==
  {c \in [maxRequests : 1..MaxMaxRequests,
          windowMs : {k * TickMs : k \in 0..MaxWindowTicks},
          queueRequests : BOOLEAN,
          maxQueueSize : 0..MaxMaxQueueSize] :
     ~c.queueRequests => c.maxQueueSize = 0}

CallStates == {"new", "running", "queued", "resolved", "failed",
               "rejected_limit", "rejected_full"}

\* requests.filter((time) => now - time < windowMs)
InWindowMut(reqs, t) == SelectSeq(reqs, LAMBDA time : t - time <= rlConfig.windowMs)
InWindow(reqs, t) == SelectSeq(reqs, LAMBDA time : t - time < rlConfig.windowMs)

\* if (this.requests.length < this.config.maxRequests)
UnderLimitMut(reqs) == Len(reqs) <= rlConfig.maxRequests
UnderLimit(reqs) == Len(reqs) < rlConfig.maxRequests

\* if (this.config.maxQueueSize && this.queue.length >= this.config.maxQueueSize)
QueueFullMut(q) == rlConfig.maxQueueSize # 0 /\ Len(q) > rlConfig.maxQueueSize
QueueFull(q) == rlConfig.maxQueueSize # 0 /\ Len(q) >= rlConfig.maxQueueSize

\* One pass of processQueue from the top of its while loop to its next await or
\* to its end, given the requests, queue and call states it finds.
DrainLoop(reqs, q, cs) ==
  IF Len(q) = 0
  THEN /\ processing' = FALSE
       /\ drainPc' = "idle"
       /\ drainWake' = 0
       /\ drainCall' = 0
       /\ requests' = reqs
       /\ queue' = q
       /\ callState' = cs
       /\ admitLog' = admitLog
  ELSE LET kept == InWindow(reqs, now) IN
       IF ~UnderLimit(kept)
       THEN \* await sleep(windowMs - (now - oldestRequest) + 10); continue
            /\ processing' = TRUE
            /\ drainPc' = "sleeping"
            /\ drainWake' = now + (rlConfig.windowMs - (now - kept[1]) + SleepSlackMs)
            /\ drainCall' = 0
            /\ requests' = kept
            /\ queue' = q
            /\ callState' = cs
            /\ admitLog' = admitLog
       ELSE \* request = queue.shift(); requests.push(Date.now()); await request.execute()
            /\ processing' = TRUE
            /\ drainPc' = "awaiting"
            /\ drainWake' = 0
            /\ drainCall' = Head(q)
            /\ requests' = Append(kept, now)
            /\ queue' = Tail(q)
            /\ callState' = [cs EXCEPT ![Head(q)] = "running"]
            /\ admitLog' = Append(admitLog, <<Head(q), now, "processQueue">>)

\* if (this.processing) return
LoopActiveMut == FALSE
LoopActive == processing

\* processQueue(): a second call while one is active returns at once.
ProcessQueue(reqs, q, cs) ==
  IF LoopActive
  THEN /\ requests' = reqs
       /\ queue' = q
       /\ callState' = cs
       /\ UNCHANGED <<processing, drainPc, drainWake, drainCall, admitLog>>
  ELSE DrainLoop(reqs, q, cs)

\* execute(fn) by the next caller.
RLExecute ==
  /\ nextCall <= MaxCalls
  /\ nextCall' = nextCall + 1
  /\ LET c == nextCall
         kept == InWindow(requests, now)
     IN IF UnderLimit(kept)
        THEN \* this.requests.push(now); return fn()
             /\ requests' = Append(kept, now)
             /\ admitLog' = Append(admitLog, <<c, now, "execute">>)
             /\ callState' = [callState EXCEPT ![c] = "running"]
             /\ UNCHANGED <<queue, processing, drainPc, drainWake, drainCall>>
        ELSE IF rlConfig.queueRequests
             THEN IF QueueFull(queue)
                  THEN \* throw new Error('Rate limit queue full')
                       /\ requests' = kept
                       /\ callState' = [callState EXCEPT ![c] = "rejected_full"]
                       /\ UNCHANGED <<queue, processing, drainPc, drainWake, drainCall,
                                      admitLog>>
                  ELSE \* this.queue.push(...); this.processQueue()
                       ProcessQueue(kept, Append(queue, c),
                                    [callState EXCEPT ![c] = "queued"])
             ELSE \* throw new Error('Rate limit exceeded')
                  /\ requests' = kept
                  /\ callState' = [callState EXCEPT ![c] = "rejected_limit"]
                  /\ UNCHANGED <<queue, processing, drainPc, drainWake, drainCall,
                                 admitLog>>
  /\ UNCHANGED <<now, rlConfig>>

\* The timer of sleep(waitTime) fires (at or after its time): the loop continues.
DrainWakeMut ==
  /\ drainPc = "sleeping"
  /\ now >= drainWake
  /\ processing' = FALSE
  /\ drainPc' = "idle"
  /\ drainWake' = 0
  /\ UNCHANGED <<now, rlConfig, nextCall, requests, queue, callState, admitLog, drainCall>>
DrainWake ==
  /\ drainPc = "sleeping"
  /\ now >= drainWake
  /\ DrainLoop(requests, queue, callState)
  /\ UNCHANGED <<now, rlConfig, nextCall>>

\* The wrapped call processQueue awaits settles: the loop resolves or rejects the
\* caller's promise with the call's own outcome and goes round again.  (A call
\* admitted by execute itself is returned to its caller as it is, "return fn()":
\* the limiter never sees it settle.)
RLSettle(ok) ==
  /\ drainPc = "awaiting"
  /\ callState[drainCall] = "running"
  /\ DrainLoop(requests, queue,
               [callState EXCEPT ![drainCall] = IF ok THEN "resolved" ELSE "failed"])
  /\ UNCHANGED <<now, rlConfig, nextCall>>

RLInit ==
  /\ rlConfig \in RLConfigs
  /\ requests = <<>>
  /\ queue = <<>>
  /\ processing = FALSE
  /\ drainPc = "idle"
  /\ drainWake = 0
  /\ drainCall = 0
  /\ nextCall = 1
  /\ callState = [c \in 1..MaxCalls |-> "new"]
  /\ admitLog = <<>>

\* The rate limiter when it is not the component under study.
RLIdle ==
  /\ rlConfig = [maxRequests |-> 1, windowMs |-> 0, queueRequests |-> FALSE,
                 maxQueueSize |-> 0]
  /\ requests = <<>>
  /\ queue = <<>>
  /\ processing = FALSE
  /\ drainPc = "idle"
  /\ drainWake = 0
  /\ drainCall = 0
  /\ nextCall = 1
  /\ callState = [c \in 1..MaxCalls |-> "new"]
  /\ admitLog = <<>>

(***************************************************************************)
(* CircuitBreaker (src/unnamed/part_005, lines 137-220)                    *)
(***************************************************************************)
CBConfigs ==
  [failureThreshold : 1..MaxThreshold,
   resetTimeoutMs : {k * TickMs : k \in 1..MaxResetTicks},
   successThreshold : 1..MaxThreshold]

\* shouldAttemptReset()
ShouldAttemptResetMut == TRUE
ShouldAttemptReset ==
  IF lastFailure = 0 THEN TRUE
  ELSE now - lastFailure >= cbConfig.resetTimeoutMs

\* if (this.failures >= this.config.failureThreshold)
FailureThresholdReachedMut(f) == f > cbConfig.failureThreshold
FailureThresholdReached(f) == f >= cbConfig.failureThreshold

\* if (this.successes >= this.successThreshold)
SuccessThresholdReached(s) == s >= cbConfig.successThreshold

\* onSuccess()
OnSuccess ==
  /\ failures' = 0
  /\ IF state = "half-open"
     THEN IF SuccessThresholdReached(successes + 1)
          THEN state' = "closed" /\ successes' = 0
          ELSE state' = state /\ successes' = successes + 1
     ELSE UNCHANGED <<state, successes>>
  /\ UNCHANGED lastFailure

\* onFailure()
OnFailure ==
  /\ failures' = failures + 1
  /\ lastFailure' = now
  /\ successes' = 0
  /\ state' = IF FailureThresholdReached(failures + 1) THEN "open" ELSE state

\* execute(fn) up to the await of fn(): reject while open, or invoke fn.
CBExecute ==
  /\ cbCalls < MaxCbCalls
  /\ cbCalls' = cbCalls + 1
  /\ IF state = "open" /\ ~ShouldAttemptReset
     THEN \* throw new Error('Circuit breaker is open')
          /\ cbLast' = [op |-> "execute", outcome |-> "rejected_open"]
          /\ UNCHANGED <<state, failures, successes, lastFailure, inflight, invocations,
                         consecFailures, hoSuccesses>>
     ELSE /\ inflight < MaxInflight
          /\ state' = IF state = "open" THEN "half-open" ELSE state
          /\ hoSuccesses' = IF state = "open" THEN 0 ELSE hoSuccesses
          /\ inflight' = inflight + 1
          /\ invocations' = invocations + 1
          /\ cbLast' = [op |-> "execute", outcome |-> "invoked"]
          /\ UNCHANGED <<failures, successes, lastFailure, consecFailures>>
  /\ UNCHANGED <<now, cbConfig>>

\* await fn() returns: onSuccess()
CBSettleSuccess ==
  /\ inflight > 0
  /\ inflight' = inflight - 1
  /\ OnSuccess
  /\ cbLast' = [op |-> "success", outcome |-> state]
  /\ consecFailures' = 0
  /\ hoSuccesses' = IF state = "half-open" THEN hoSuccesses + 1 ELSE hoSuccesses
  /\ UNCHANGED <<now, cbConfig, cbCalls, invocations>>

\* await fn() throws: onFailure()
CBSettleFailure ==
  /\ inflight > 0
  /\ inflight' = inflight - 1
  /\ OnFailure
  /\ cbLast' = [op |-> "failure", outcome |-> state]
  /\ consecFailures' = consecFailures + 1
  /\ UNCHANGED <<now, cbConfig, cbCalls, invocations, hoSuccesses>>

\* reset()
CBResetMut ==
  /\ cbLast.op # "reset"
  /\ state' = "closed"
  /\ failures' = 0
  /\ successes' = 0
  /\ cbLast' = [op |-> "reset", outcome |-> state]
  /\ consecFailures' = 0
  /\ UNCHANGED <<now, cbConfig, lastFailure, inflight, cbCalls, invocations, hoSuccesses>>
CBReset ==
  /\ cbLast.op # "reset"
  /\ state' = "closed"
  /\ failures' = 0
  /\ successes' = 0
  /\ lastFailure' = 0
  /\ cbLast' = [op |-> "reset", outcome |-> state]
  /\ consecFailures' = 0
  /\ UNCHANGED <<now, cbConfig, inflight, cbCalls, invocations, hoSuccesses>>

\* getState(): return this.state
CBGetStateMut ==
  /\ cbLast.op # "getState"
  /\ state' = IF state = "open" /\ ShouldAttemptReset THEN "half-open" ELSE state
  /\ cbLast' = [op |-> "getState", outcome |-> state']
  /\ UNCHANGED <<now, cbConfig, failures, successes, lastFailure, inflight, cbCalls,
                 invocations, consecFailures, hoSuccesses>>
CBGetState ==
  /\ cbLast.op # "getState"
  /\ cbLast' = [op |-> "getState", outcome |-> state]
  /\ UNCHANGED <<now, cbConfig, state, failures, successes, lastFailure, inflight, cbCalls,
                 invocations, consecFailures, hoSuccesses>>

CBInit ==
  /\ cbConfig \in CBConfigs
  /\ state = "closed"
  /\ failures = 0
  /\ successes = 0
  /\ lastFailure = 0
  /\ inflight = 0
  /\ cbCalls = 0
  /\ invocations = 0
  /\ cbLast = [op |-> "none", outcome |-> "none"]
  /\ consecFailures = 0
  /\ hoSuccesses = 0

\* The breaker when it is not the component under study.
CBIdle ==
  /\ cbConfig = [failureThreshold |-> 1, resetTimeoutMs |-> TickMs, successThreshold |-> 1]
  /\ state = "closed"
  /\ failures = 0
  /\ successes = 0
  /\ lastFailure = 0
  /\ inflight = 0
  /\ cbCalls = 0
  /\ invocations = 0
  /\ cbLast = [op |-> "none", outcome |-> "none"]
  /\ consecFailures = 0
  /\ hoSuccesses = 0

(***************************************************************************)
(* Stream clients (src/src/exchange/base.ts, binance.ts, kraken.ts)        *)
(*                                                                         *)
(* A socket is a WebSocket object with the handlers its creator attached:  *)
(*   id       its slot,                                                    *)
(*   key      BinanceClient: the stream it was opened for; Kraken: Shared, *)
(*   st       connecting | open | closing (close() called, event pending), *)
(*   origin   subscribe (a start*Stream call) | reconnect (a timer),       *)
(*   waiter   KrakenClient: the key whose start*Stream awaits the open, or *)
(*            Shared for the timer callback of handleReconnect,            *)
(*   sent     the keys the venue streams over it: its URL's stream for     *)
(*            Binance, the subscribe frames sent and not revoked for       *)
(*            Kraken,                                                      *)
(*   forActive, afterClose, missed   history, see the claims.              *)
(***************************************************************************)
maxReconnectAttempts == 10
reconnectDelay == 1000

CandleKeys ==
  {[kind |-> "candle", symbol |-> "BTC/USD", timeframe |-> "1m"]}
TradeKeys == {[kind |-> "trade", symbol |-> "BTC/USD", timeframe |-> "-"]}
StreamKeys == CandleKeys \cup TradeKeys
Shared == [kind |-> "shared", symbol |-> "-", timeframe |-> "-"]

RECURSIVE Pow2(_)
Pow2(n) == IF n = 0 THEN 1 ELSE 2 * Pow2(n - 1)

SeqToSet(q) == {q[i] : i \in 1..Len(q)}

\* candleHandlers.has(`${symbol}:${timeframe}`) / tradeHandlers.has(symbol)
HasHandler(k, ch, th) == IF k.kind = "candle" THEN k \in ch ELSE k \in th

FreeSockets == (1..MaxSockets) \ {s.id : s \in sockets}
FreeTimers == (1..MaxTimers) \ {t.id : t \in timers}
NewSocketId == CHOOSE i \in FreeSockets : \A j \in FreeSockets : i <= j
NewTimerId == CHOOSE i \in FreeTimers : \A j \in FreeTimers : i <= j

\* new WebSocket(url), with its open/message/close/error handlers attached
NewSocket(k, orig, w, active) ==
  [id |-> NewSocketId, key |-> k, st |-> "connecting", origin |-> orig, waiter |-> w,
   sent |-> IF k = Shared THEN {} ELSE {k},
   forActive |-> active, afterClose |-> closed, missed |-> {}]

\* setConnectionStatus(status), with hs the status handlers registered at the call
SetConnectionStatus(status, hs) ==
  /\ connectionStatus' = status
  /\ lastNotified' = IF connectionStatus # status /\ hs THEN status ELSE lastNotified

\* if (this.reconnectAttempts >= this.maxReconnectAttempts)
BudgetSpentMut == reconnectAttempts > maxReconnectAttempts
BudgetSpent == reconnectAttempts >= maxReconnectAttempts

\* this.reconnectDelay * Math.pow(2, this.reconnectAttempts - 1), after the increment
BackoffDelay(attempts) == reconnectDelay * Pow2(attempts - 1)

\* handleReconnect, given whether there is anything to reconnect for
\* (BinanceClient: a handler for the key; KrakenClient: subscriptions.size > 0).
HandleReconnect(k, shouldReconnect) ==
  IF ~shouldReconnect
  THEN UNCHANGED <<reconnectAttempts, timers, connectionStatus, lastNotified, scheduled,
                   exhausted>>
  ELSE IF BudgetSpent
  THEN /\ SetConnectionStatus("disconnected", statusHandlers)
       /\ exhausted' = TRUE
       /\ UNCHANGED <<reconnectAttempts, timers, scheduled>>
  ELSE /\ FreeTimers # {}
       /\ reconnectAttempts' = reconnectAttempts + 1
       /\ SetConnectionStatus("reconnecting", statusHandlers)
       /\ timers' = timers \cup {[id |-> NewTimerId, key |-> k,
                                  delay |-> BackoffDelay(reconnectAttempts + 1),
                                  nth |-> scheduled + 1, stale |-> FALSE]}
       /\ scheduled' = scheduled + 1
       /\ UNCHANGED exhausted

\* ws.on('close'): BinanceClient.connectWebSocket / KrakenClient.ensureWebSocketConnected
CloseHandler(s) ==
  /\ sockets' = sockets \ {s}
  /\ IF venue = "binance"
     THEN /\ wsConnections' = [wsConnections EXCEPT ![s.key] = 0]
          /\ HandleReconnect(s.key, HasHandler(s.key, candleHandlers, tradeHandlers))
          /\ UNCHANGED <<ws, subscriptions>>
     ELSE /\ ws' = 0
          /\ HandleReconnect(Shared, Len(subscriptions) > 0)
          /\ UNCHANGED <<wsConnections, subscriptions>>
  /\ UNCHANGED <<venue, statusHandlers, candleHandlers, tradeHandlers, attemptsMade, closed,
                 userOps>>

\* The connection attempt fails: 'error', then 'close'.
SocketFails(s) == s.st = "connecting" /\ CloseHandler(s)
\* The venue drops an open connection: 'close'.
ServerDrop(s) == s.st = "open" /\ CloseHandler(s)
\* The 'close' event of a socket the client closed itself.
SocketClosed(s) == s.st = "closing" /\ CloseHandler(s)

\* subscriptions.set(key, ...): a Map keeps the position of a key it already holds
MapSet(q, k) == IF k \in SeqToSet(q) THEN q ELSE Append(q, k)
MapDelete(q, k) == SelectSeq(q, LAMBDA x : x # k)

\* KrakenClient.start*Stream: if (this.subscriptions.has(key)) return
StreamActive(k, subs) == k \in SeqToSet(subs)

\* The subscribe frames the replay loop of handleReconnect's timer callback sends:
\* it calls start*Stream for every key of this.subscriptions.
ReplayFrames(subs) == {k \in SeqToSet(subs) : ~StreamActive(k, subs)}

\* ws.on('open')
SocketOpens(s) ==
  /\ s.st = "connecting"
  /\ reconnectAttempts' = 0
  /\ SetConnectionStatus("connected", statusHandlers)
  /\ attemptsMade' = 0
  /\ scheduled' = 0
  /\ exhausted' = FALSE
  /\ IF venue = "binance"
     THEN /\ sockets' = (sockets \ {s}) \cup
                 {[s EXCEPT !.st = "open",
                            !.missed = IF s.origin = "reconnect"
                                          /\ HasHandler(s.key, candleHandlers, tradeHandlers)
                                       THEN {s.key} \ s.sent ELSE {}]}
          /\ UNCHANGED <<ws, subscriptions>>
     ELSE \* this.ws = ws; ...; resolve(): the awaiting start*Stream or timer callback resumes
          /\ ws' = s.id
          /\ IF s.waiter = Shared
             THEN \* for (const [key] of this.subscriptions) await this.start*Stream(...)
                  /\ sockets' = (sockets \ {s}) \cup
                        {[s EXCEPT !.st = "open",
                                   !.sent = s.sent \cup ReplayFrames(subscriptions),
                                   !.missed = SeqToSet(subscriptions)
                                                \ (s.sent \cup ReplayFrames(subscriptions))]}
                  /\ UNCHANGED subscriptions
             ELSE \* sendWebSocketMessage(subscribeMsg); this.subscriptions.set(key, ...)
                  /\ sockets' = (sockets \ {s}) \cup
                        {[s EXCEPT !.st = "open", !.sent = s.sent \cup {s.waiter}]}
                  /\ subscriptions' = MapSet(subscriptions, s.waiter)
  /\ timers' = {[t EXCEPT !.stale = TRUE] : t \in timers}
  /\ UNCHANGED <<venue, statusHandlers, candleHandlers, tradeHandlers, wsConnections, closed,
                 userOps>>

\* The callback handleReconnect gave to setTimeout runs.
ReconnectTimerFires(t) ==
  /\ t \in timers
  /\ timers' = timers \ {t}
  /\ IF venue = "binance"
     THEN \* this.connectWebSocket(key, url, messageHandler)
          /\ FreeSockets # {}
          /\ sockets' = sockets \cup
                {NewSocket(t.key, "reconnect", t.key,
                           HasHandler(t.key, candleHandlers, tradeHandlers))}
          /\ wsConnections' = [wsConnections EXCEPT ![t.key] = NewSocketId]
          /\ attemptsMade' = IF t.stale THEN attemptsMade ELSE attemptsMade + 1
     ELSE \* await this.ensureWebSocketConnected(); then the replay loop
          IF ws # 0
          THEN UNCHANGED <<sockets, wsConnections, attemptsMade>>
          ELSE /\ FreeSockets # {}
               /\ sockets' = sockets \cup
                     {NewSocket(Shared, "reconnect", Shared, Len(subscriptions) > 0)}
               /\ attemptsMade' = IF t.stale THEN attemptsMade ELSE attemptsMade + 1
               /\ UNCHANGED wsConnections
  /\ UNCHANGED <<venue, connectionStatus, statusHandlers, candleHandlers, tradeHandlers, ws,
                 subscriptions, reconnectAttempts, lastNotified, scheduled, exhausted, closed,
                 userOps>>

\* onConnectionStatusChange(handler)
OnConnectionStatusChange ==
  /\ userOps < MaxUserOps
  /\ userOps' = userOps + 1
  /\ ~statusHandlers
  /\ statusHandlers' = TRUE
  /\ UNCHANGED <<venue, connectionStatus, candleHandlers, tradeHandlers, sockets,
                 wsConnections, ws, subscriptions, reconnectAttempts, timers, lastNotified,
                 attemptsMade, scheduled, exhausted, closed>>

\* subscribeCandles / subscribeTrades: register the handler, then start*Stream
Subscribe(k) ==
  /\ userOps < MaxUserOps
  /\ userOps' = userOps + 1
  /\ candleHandlers' = IF k.kind = "candle" THEN candleHandlers \cup {k} ELSE candleHandlers
  /\ tradeHandlers' = IF k.kind = "trade" THEN tradeHandlers \cup {k} ELSE tradeHandlers
  /\ closed' = FALSE
  /\ IF venue = "binance"
     THEN IF wsConnections[k] # 0
          THEN UNCHANGED <<sockets, wsConnections, subscriptions>>
          ELSE /\ FreeSockets # {}
               /\ sockets' = sockets \cup {NewSocket(k, "subscribe", k, TRUE)}
               /\ wsConnections' = [wsConnections EXCEPT ![k] = NewSocketId]
               /\ UNCHANGED subscriptions
     ELSE IF StreamActive(k, subscriptions)
          THEN UNCHANGED <<sockets, wsConnections, subscriptions>>
          ELSE IF ws # 0
          THEN \* the connection exists: send the subscribe frame over it
               /\ sockets' = {IF x.id = ws THEN [x EXCEPT !.sent = x.sent \cup {k}] ELSE x :
                                x \in sockets}
               /\ subscriptions' = MapSet(subscriptions, k)
               /\ UNCHANGED wsConnections
          ELSE /\ FreeSockets # {}
               /\ sockets' = sockets \cup {NewSocket(Shared, "subscribe", k, TRUE)}
               /\ UNCHANGED <<wsConnections, subscriptions>>
  /\ UNCHANGED <<venue, connectionStatus, statusHandlers, ws, reconnectAttempts, timers,
                 lastNotified, attemptsMade, scheduled, exhausted>>

\* unsubscribeCandles / unsubscribeTrades: drop the handler, then stop*Stream
Unsubscribe(k) ==
  /\ userOps < MaxUserOps
  /\ userOps' = userOps + 1
  /\ HasHandler(k, candleHandlers, tradeHandlers)
  /\ candleHandlers' = candleHandlers \ {k}
  /\ tradeHandlers' = tradeHandlers \ {k}
  /\ IF venue = "binance"
     THEN \* closeWebSocket(key)
          /\ sockets' = {IF x.id = wsConnections[k] THEN [x EXCEPT !.st = "closing"] ELSE x :
                           x \in sockets}
          /\ wsConnections' = [wsConnections EXCEPT ![k] = 0]
          /\ UNCHANGED subscriptions
     ELSE \* if (sub && this.ws) send the unsubscribe frame; this.subscriptions.delete(key)
          /\ sockets' = {IF x.id = ws /\ k \in SeqToSet(subscriptions)
                         THEN [x EXCEPT !.sent = x.sent \ {k}] ELSE x : x \in sockets}
          /\ subscriptions' = MapDelete(subscriptions, k)
          /\ UNCHANGED wsConnections
  /\ UNCHANGED <<venue, connectionStatus, statusHandlers, ws, reconnectAttempts, timers,
                 lastNotified, attemptsMade, scheduled, exhausted, closed>>

\* close(): clear the handlers, closeAllStreams(), setConnectionStatus('disconnected')
Close ==
  /\ userOps < MaxUserOps
  /\ userOps' = userOps + 1
  /\ ~closed
  /\ candleHandlers' = {}
  /\ tradeHandlers' = {}
  /\ statusHandlers' = FALSE
  /\ IF venue = "binance"
     THEN /\ sockets' = {IF \E k \in StreamKeys : wsConnections[k] = x.id
                         THEN [x EXCEPT !.st = "closing"] ELSE x : x \in sockets}
          /\ wsConnections' = [k \in StreamKeys |-> 0]
          /\ UNCHANGED <<ws, subscriptions>>
     ELSE /\ sockets' = {IF x.id = ws THEN [x EXCEPT !.st = "closing"] ELSE x : x \in sockets}
          /\ ws' = 0
          /\ subscriptions' = <<>>
          /\ UNCHANGED wsConnections
  /\ SetConnectionStatus("disconnected", FALSE)
  /\ closed' = TRUE
  /\ UNCHANGED <<venue, reconnectAttempts, timers, attemptsMade, scheduled, exhausted>>

WSInitFor(v) ==
  /\ venue = v
  /\ connectionStatus = "disconnected"
  /\ statusHandlers = FALSE
  /\ candleHandlers = {}
  /\ tradeHandlers = {}
  /\ sockets = {}
  /\ wsConnections = [k \in StreamKeys |-> 0]
  /\ ws = 0
  /\ subscriptions = <<>>
  /\ reconnectAttempts = 0
  /\ timers = {}
  /\ lastNotified = "none"
  /\ attemptsMade = 0
  /\ scheduled = 0
  /\ exhausted = FALSE
  /\ closed = FALSE
  /\ userOps = 0

WSInit == \E v \in {"binance", "kraken"} : WSInitFor(v)
\* The stream client when it is not the component under study.
WSIdle == WSInitFor("binance")

(***************************************************************************)
(* Candle backfill (src/src/backtesting/runner.ts, lines 132-288) over the *)
(* candle repository (src/src/persistence/repositories/candles.ts), for    *)
(* one (exchange, symbol, timeframe).  Time is counted in days here, the   *)
(* duration of the '1d' timeframe, so that the 365-day horizon fits the    *)
(* integers of the model checker.                                          *)
(*                                                                         *)
(* The venue holds a fixed set of candles and answers fetchOHLCV(since,    *)
(* limit) with the first `limit` of them at or after `since`, oldest       *)
(* first: the same request always gets the same answer.                    *)
(***************************************************************************)
\* null (number | null in the repository, an option left out in BackfillOptions)
Null == 0 - 1

\* TIMEFRAME_MS['1d'] and 365 * 24 * 60 * 60 * 1000, in days
TIMEFRAME_MS == 1
HorizonMs == 365

Grid == 1..MaxTs
BfStartTime == HorizonMs + SinceAt

BackfillOptionSets ==
  [since : {Null, 0, SinceAt}, until : {Null, UntilAt}, batchSize : 1..MaxBatchSize]

\* A candle row, reduced to its natural key and one value column.
VenueCandle(t) == [timestamp |-> t, close |-> 1]
StaleCandle(t) == [timestamp |-> t, close |-> 0]

\* The storage states a backfill may find: empty, or one row written earlier.
InitialRows == {<<>>} \cup {<<StaleCandle(t)>> : t \in Grid}

MinOf(S) == CHOOSE x \in S : \A y \in S : x <= y
MaxOf(S) == CHOOSE x \in S : \A y \in S : x >= y

RECURSIVE Ascending(_)
Ascending(S) == IF S = {} THEN <<>> ELSE <<MinOf(S)>> \o Ascending(S \ {MinOf(S)})

\* client.fetchOHLCV({symbol, timeframe, since, limit}) against the venue's candles
FetchOHLCV(data, since, limit) ==
  LET avail == Ascending({t \in data : t >= since})
      n == IF Len(avail) < limit THEN Len(avail) ELSE limit
  IN [i \in 1..n |-> VenueCandle(avail[i])]

\* INSERT INTO candles ... ON CONFLICT(exchange, symbol, timeframe, timestamp) DO UPDATE
UpsertRow(rows, c) ==
  IF \E i \in 1..Len(rows) : rows[i].timestamp = c.timestamp
  THEN [i \in 1..Len(rows) |-> IF rows[i].timestamp = c.timestamp THEN c ELSE rows[i]]
  ELSE Append(rows, c)

RECURSIVE upsertCandles(_, _)
upsertCandlesMut(rows, page) == rows \o page
upsertCandles(rows, page) ==
  IF page = <<>> THEN rows
  ELSE upsertCandles(UpsertRow(rows, Head(page)), Tail(page))

Timestamps(rows) == {rows[i].timestamp : i \in 1..Len(rows)}
\* SELECT MAX(timestamp) / MIN(timestamp) / COUNT(*)
getNewestCandleTimestamp(rows) == IF rows = <<>> THEN Null ELSE MaxOf(Timestamps(rows))
getOldestCandleTimestamp(rows) == IF rows = <<>> THEN Null ELSE MinOf(Timestamps(rows))
getCandleCount(rows) == Len(rows)

\* The sync_status row; NoSyncRow stands for "no row yet".
NoSyncRow ==
  [lastSyncedAt |-> Null, oldestCandle |-> Null, newestCandle |-> Null, candleCount |-> 0,
   status |-> "none", errorMessage |-> "null"]
\* A Partial<SyncStatus>: Null, "absent" and "null" mark the fields left out.
NoFields ==
  [lastSyncedAt |-> Null, oldestCandle |-> Null, newestCandle |-> Null, candleCount |-> Null,
   status |-> "absent", errorMessage |-> "null"]
Coalesce(a, b) == IF a = Null THEN b ELSE a

\* updateSyncStatus: the statement is given candleCount ?? 0 and status ?? 'idle', so
\* COALESCE never falls back to the stored candle_count or status.
updateSyncStatus(row, p) ==
  LET count == IF p.candleCount = Null THEN 0 ELSE p.candleCount
      st == IF p.status = "absent" THEN "idle" ELSE p.status
  IN IF row.status = "none"
     THEN [lastSyncedAt |-> p.lastSyncedAt, oldestCandle |-> p.oldestCandle,
           newestCandle |-> p.newestCandle, candleCount |-> count, status |-> st,
           errorMessage |-> p.errorMessage]
     ELSE [lastSyncedAt |-> Coalesce(p.lastSyncedAt, row.lastSyncedAt),
           oldestCandle |-> Coalesce(p.oldestCandle, row.oldestCandle),
           newestCandle |-> Coalesce(p.newestCandle, row.newestCandle),
           candleCount |-> count, status |-> st, errorMessage |-> p.errorMessage]

\* JavaScript's !x for a number | undefined | null
Falsy(x) == x = Null \/ x = 0

\* "Determine the starting point"
StartingPoint(rows, since, until) ==
  IF ~Falsy(since) THEN since
  ELSE IF ~Falsy(getNewestCandleTimestamp(rows))
  THEN getNewestCandleTimestamp(rows) + TIMEFRAME_MS
  ELSE until - HorizonMs

\* "Update sync status with final state" and the success result
BackfillCompletesMut(st, rows, total, until) ==
  /\ syncStatus' = updateSyncStatus(st,
        [NoFields EXCEPT !.status = "idle", !.lastSyncedAt = now,
                         !.newestCandle = getNewestCandleTimestamp(rows),
                         !.candleCount = getCandleCount(rows)])
  /\ runLog' = Append(runLog,
        [success |-> TRUE, candlesFetched |-> total,
         oldestCandle |-> getOldestCandleTimestamp(rows),
         newestCandle |-> getNewestCandleTimestamp(rows),
         until |-> until, wrote |-> total > 0, count |-> getCandleCount(rows),
         error |-> "null"])
  /\ bfPc' = "idle"
BackfillCompletes(st, rows, total, until) ==
  /\ syncStatus' = updateSyncStatus(st,
        [NoFields EXCEPT !.status = "idle", !.lastSyncedAt = now,
                         !.oldestCandle = getOldestCandleTimestamp(rows),
                         !.newestCandle = getNewestCandleTimestamp(rows),
                         !.candleCount = getCandleCount(rows)])
  /\ runLog' = Append(runLog,
        [success |-> TRUE, candlesFetched |-> total,
         oldestCandle |-> getOldestCandleTimestamp(rows),
         newestCandle |-> getNewestCandleTimestamp(rows),
         until |-> until, wrote |-> total > 0, count |-> getCandleCount(rows),
         error |-> "null"])
  /\ bfPc' = "idle"

\* backfillCandles(options), up to its first await
BackfillStart ==
  /\ bfPc = "idle"
  /\ Len(runLog) < MaxRuns
  /\ LET until == IF bfOptions.until = Null THEN now ELSE bfOptions.until
         syncing == updateSyncStatus(syncStatus, [NoFields EXCEPT !.status = "syncing"])
         start == StartingPoint(candles, bfOptions.since, until)
     IN /\ bfUntil' = until
        /\ currentSince' = start
        /\ totalFetched' = 0
        /\ IF start < until
           THEN /\ bfPc' = "fetching"
                /\ syncStatus' = syncing
                /\ UNCHANGED runLog
           ELSE BackfillCompletes(syncing, candles, 0, until)
  /\ UNCHANGED <<venueCandles, candles, bfOptions, candles0, currentUntil, targetSince,
                 thrown>>

\* await client.fetchOHLCV(...) returns a page: the rest of the loop body, and the loop
\* up to the next await or to the return
PageArrives(page) ==
  /\ bfPc = "fetching"
  /\ LET rows == upsertCandles(candles, page)
         next == page[Len(page)].timestamp + TIMEFRAME_MS
     IN IF page = <<>>
        THEN /\ BackfillCompletes(syncStatus, candles, totalFetched, bfUntil)
             /\ UNCHANGED <<candles, totalFetched, currentSince>>
        ELSE /\ candles' = rows
             /\ totalFetched' = totalFetched + Len(page)
             /\ currentSince' = next
             /\ IF Len(page) = bfOptions.batchSize /\ next < bfUntil
                THEN bfPc' = "sleeping" /\ UNCHANGED <<syncStatus, runLog>>
                ELSE IF next < bfUntil
                THEN bfPc' = "fetching" /\ UNCHANGED <<syncStatus, runLog>>
                ELSE BackfillCompletes(syncStatus, rows, totalFetched + Len(page), bfUntil)
  /\ UNCHANGED <<venueCandles, bfOptions, bfUntil, candles0, currentUntil, targetSince,
                 thrown>>

\* The page comes from a venue that honours since and limit.
FetchReturns == PageArrives(FetchOHLCV(venueCandles, currentSince, bfOptions.batchSize))

\* The pages a venue that honours only the limit and the ascending order may return.
AnyPages(limit) ==
  {[i \in 1..Len(Ascending(S)) |-> VenueCandle(Ascending(S)[i])] :
     S \in {T \in SUBSET Grid : Cardinality(T) <= limit}}

\* await sleep(delayMs) is over
SleepDone ==
  /\ bfPc = "sleeping"
  /\ bfPc' = "fetching"
  /\ UNCHANGED <<venueCandles, candles, syncStatus, bfOptions, bfUntil, currentSince,
                 totalFetched, candles0, runLog, currentUntil, targetSince, thrown>>

\* catch (error): errorMessage = error.message, updateSyncStatus(... 'error' ...), and
\* the failure result; rows is the table the failing statement left
BackfillCatchMut(error, rows) ==
  /\ syncStatus' = updateSyncStatus(syncStatus, [NoFields EXCEPT !.status = "idle"])
  /\ runLog' = Append(runLog,
        [success |-> FALSE, candlesFetched |-> 0, oldestCandle |-> Null,
         newestCandle |-> Null, until |-> bfUntil, wrote |-> totalFetched > 0,
         count |-> getCandleCount(rows), error |-> error])
  /\ bfPc' = "idle"
BackfillCatch(error, rows) ==
  /\ syncStatus' = updateSyncStatus(syncStatus,
        [NoFields EXCEPT !.status = "error", !.errorMessage = error])
  /\ runLog' = Append(runLog,
        [success |-> FALSE, candlesFetched |-> 0, oldestCandle |-> Null,
         newestCandle |-> Null, until |-> bfUntil, wrote |-> totalFetched > 0,
         count |-> getCandleCount(rows), error |-> error])
  /\ bfPc' = "idle"

\* await client.fetchOHLCV(...) throws
FetchFails ==
  /\ bfPc = "fetching"
  /\ thrown' = "fetch failed"
  /\ BackfillCatch("fetch failed", candles)
  /\ UNCHANGED <<venueCandles, candles, bfOptions, bfUntil, currentSince, totalFetched,
                 candles0, currentUntil, targetSince>>

\* upsertCandles(candles) throws: stmt.run has stored the first k rows of the page
\* (k = all of them when saveDatabase throws)
UpsertFails ==
  /\ bfPc = "fetching"
  /\ LET page == FetchOHLCV(venueCandles, currentSince, bfOptions.batchSize)
     IN /\ page # <<>>
        /\ \E k \in 0..Len(page) :
             /\ candles' = upsertCandles(candles, SubSeq(page, 1, k))
             /\ thrown' = "upsert failed"
             /\ BackfillCatch("upsert failed", upsertCandles(candles, SubSeq(page, 1, k)))
  /\ UNCHANGED <<venueCandles, bfOptions, bfUntil, currentSince, totalFetched, candles0,
                 currentUntil, targetSince>>

\* backfillBackwards (runner.ts, lines 294-439): extends the stored range towards
\* the past, page by page, from the oldest stored candle down to targetSince.
MaxNum(a, b) == IF a >= b THEN a ELSE b

\* const fetchSince = Math.max(targetSince, currentUntil - batchSize * TIMEFRAME_MS)
BackwardFetchSince == MaxNum(targetSince, currentUntil - bfOptions.batchSize * TIMEFRAME_MS)
BackwardPage == FetchOHLCV(venueCandles, BackwardFetchSince, bfOptions.batchSize)
\* candles.filter((c) => c.timestamp < currentUntil)
NewCandlesMut == SelectSeq(BackwardPage, LAMBDA c : c.timestamp <= currentUntil)
NewCandles == SelectSeq(BackwardPage, LAMBDA c : c.timestamp < currentUntil)

\* catch (error) of backfillBackwards: the same statements as the catch of backfillCandles
BackwardsCatch(error, rows) == BackfillCatch(error, rows)

\* backfillBackwards(options), up to its first await
BackwardStart ==
  IF Falsy(getOldestCandleTimestamp(candles))
  THEN \* return backfillCandles(options)
       BackfillStart
  ELSE /\ bfPc = "idle"
       /\ Len(runLog) < MaxRuns
       /\ LET oldest == getOldestCandleTimestamp(candles)
              target == IF bfOptions.since = Null THEN oldest - HorizonMs ELSE bfOptions.since
              syncing == updateSyncStatus(syncStatus, [NoFields EXCEPT !.status = "syncing"])
          IN /\ targetSince' = target
             /\ currentUntil' = oldest
             /\ totalFetched' = 0
             /\ bfUntil' = Null
             /\ IF oldest > target
                THEN /\ bfPc' = "fetchingBack"
                     /\ syncStatus' = syncing
                     /\ UNCHANGED runLog
                ELSE BackfillCompletes(syncing, candles, 0, Null)
       /\ UNCHANGED <<venueCandles, candles, bfOptions, currentSince, candles0, thrown>>

\* await client.fetchOHLCV(...) returns a page: the rest of the loop body
BackwardFetchReturns ==
  /\ bfPc = "fetchingBack"
  /\ IF NewCandles = <<>>
     THEN \* break (empty page, or nothing older than currentUntil in it)
          /\ BackfillCompletes(syncStatus, candles, totalFetched, Null)
          /\ UNCHANGED <<candles, totalFetched, currentUntil>>
     ELSE /\ candles' = upsertCandles(candles, NewCandles)
          /\ totalFetched' = totalFetched + Len(NewCandles)
          /\ currentUntil' = NewCandles[1].timestamp
          /\ bfPc' = "sleepingBack"
          /\ UNCHANGED <<syncStatus, runLog>>
  /\ UNCHANGED <<venueCandles, bfOptions, bfUntil, currentSince, candles0, targetSince,
                 thrown>>

\* await sleep(delayMs) is over: the loop test, and the final state when it fails
BackwardSleepDone ==
  /\ bfPc = "sleepingBack"
  /\ IF currentUntil > targetSince
     THEN bfPc' = "fetchingBack" /\ UNCHANGED <<syncStatus, runLog>>
     ELSE BackfillCompletes(syncStatus, candles, totalFetched, Null)
  /\ UNCHANGED <<venueCandles, candles, bfOptions, bfUntil, currentSince, totalFetched,
                 candles0, currentUntil, targetSince, thrown>>

\* await client.fetchOHLCV(...) throws
BackwardFetchFails ==
  /\ bfPc = "fetchingBack"
  /\ thrown' = "fetch failed"
  /\ BackwardsCatch("fetch failed", candles)
  /\ UNCHANGED <<venueCandles, candles, bfOptions, bfUntil, currentSince, totalFetched,
                 candles0, currentUntil, targetSince>>

\* upsertCandles(newCandles) throws after storing the first k rows
BackwardUpsertFails ==
  /\ bfPc = "fetchingBack"
  /\ NewCandles # <<>>
  /\ \E k \in 0..Len(NewCandles) :
       /\ candles' = upsertCandles(candles, SubSeq(NewCandles, 1, k))
       /\ thrown' = "upsert failed"
       /\ BackwardsCatch("upsert failed", upsertCandles(candles, SubSeq(NewCandles, 1, k)))
  /\ UNCHANGED <<venueCandles, bfOptions, bfUntil, currentSince, totalFetched, candles0,
                 currentUntil, targetSince>>

\* A day passes between two runs.
BFTick ==
  /\ bfPc = "idle"
  /\ now < BfStartTime + MaxBfTicks
  /\ now' = now + 1

BFInitFor(data, rows, opts) ==
  /\ venueCandles = data
  /\ candles = rows
  /\ syncStatus = NoSyncRow
  /\ bfOptions = opts
  /\ bfPc = "idle"
  /\ bfUntil = Null
  /\ currentSince = Null
  /\ totalFetched = 0
  /\ candles0 = rows
  /\ runLog = <<>>
  /\ currentUntil = Null
  /\ targetSince = Null
  /\ thrown = "null"

BFInit ==
  \E data \in SUBSET Grid, rows \in InitialRows, opts \in BackfillOptionSets :
    BFInitFor(data, rows, opts)
\* The backfill when it is not the component under study.
BFIdle == BFInitFor({}, <<>>, [since |-> Null, until |-> Null, batchSize |-> 1])

(***************************************************************************)
(* Writes to the candles table: FeedManager.handleCandle                   *)
(* (src/src/data/feed-manager.ts, lines 262-285) for candles of the live   *)
(* stream, and the page write of the backfill (runner.ts, line 198).       *)
(* upsertCandles is synchronous, so the two interleave call by call.       *)
(***************************************************************************)
\* A candle of the live stream: same key as the venue's historical one, another close.
LiveCandle(t) == [timestamp |-> t, close |-> 2]
NoCandle == [timestamp |-> Null, close |-> Null]

\* The pages a fetch can return: up to MaxBatchSize candles, oldest first.
Pages ==
  {[i \in 1..Len(Ascending(S)) |-> VenueCandle(Ascending(S)[i])] :
     S \in {T \in SUBSET Grid : T # {} /\ Cardinality(T) <= MaxBatchSize}}

RECURSIVE RecordWrites(_, _)
RecordWrites(lw, page) ==
  IF page = <<>> THEN lw
  ELSE RecordWrites([lw EXCEPT ![Head(page).timestamp] = Head(page).close], Tail(page))

\* The statements of handleCandle that act on the world, in the order of the code.
HandleStepsMut(persistCandles, onCandle) ==
  (IF persistCandles THEN <<"upsertCandles">> ELSE <<>>)
    \o <<"eventBus.emit", "lastCandles.set">>
    \o (IF onCandle THEN <<"config.onCandle">> ELSE <<>>)
HandleSteps(persistCandles, onCandle) ==
  <<"lastCandles.set">>
    \o (IF persistCandles THEN <<"upsertCandles">> ELSE <<>>)
    \o <<"eventBus.emit">>
    \o (IF onCandle THEN <<"config.onCandle">> ELSE <<>>)

NoHandled == [candle |-> NoCandle, persistCandles |-> FALSE, onCandle |-> FALSE, steps |-> <<>>]

\* FeedManager.handleCandle(config, candle)
HandleCandle(c, persistCandles) ==
  /\ dbWrites < MaxDbWrites
  /\ dbWrites' = dbWrites + 1
  /\ lastCandles' = c
  /\ \E onCandle \in BOOLEAN :
       handled' = [candle |-> c, persistCandles |-> persistCandles, onCandle |-> onCandle,
                   steps |-> HandleSteps(persistCandles, onCandle)]
  /\ IF persistCandles
     THEN /\ candles' = upsertCandles(candles, <<c>>)
          /\ lastWritten' = RecordWrites(lastWritten, <<c>>)
     ELSE UNCHANGED <<candles, lastWritten>>
  /\ UNCHANGED <<venueCandles, syncStatus, bfOptions, bfPc, bfUntil, currentSince,
                 totalFetched, candles0, runLog, currentUntil, targetSince, thrown>>

\* const inserted = upsertCandles(candles), in the page loops of the backfill
PageWrite(page) ==
  /\ dbWrites < MaxDbWrites
  /\ dbWrites' = dbWrites + 1
  /\ candles' = upsertCandles(candles, page)
  /\ lastWritten' = RecordWrites(lastWritten, page)
  /\ UNCHANGED <<venueCandles, syncStatus, bfOptions, bfPc, bfUntil, currentSince,
                 totalFetched, candles0, runLog, lastCandles, currentUntil, targetSince,
                 thrown, handled>>

DBInitFor(rows) ==
  /\ lastCandles = NoCandle
  /\ lastWritten = [t \in Grid |-> IF \E i \in 1..Len(rows) : rows[i].timestamp = t
                                   THEN (CHOOSE r \in {rows[i] : i \in 1..Len(rows)} :
                                           r.timestamp = t).close
                                   ELSE Null]
  /\ dbWrites = 0
  /\ handled = NoHandled
DBIdle == DBInitFor(<<>>)

(***************************************************************************)
(* ProtectedClient (src/unnamed/part_005, lines 225-255)                   *)
(*   execute(fn) = rateLimiter.execute(() => circuitBreaker.execute(fn))   *)
(***************************************************************************)
\* The limiter calls the function it was given, here () => circuitBreaker.execute(fn),
\* exactly where it starts a call: "return fn()" in execute, "await
\* request.execute()" in processQueue.
ReachesBreakerMut(outcome) == outcome # "queued"
ReachesBreaker(outcome) == outcome = "running"

\* What the drain loop awaits once circuitBreaker.execute has run up to its await.
BreakerAnswer(last) == IF last.outcome = "rejected_open" THEN "rejected" ELSE "invoked"

\* The drain loop, having gone round, either started the next queued call, which
\* enters the breaker, or did not.
DrainEntersBreaker ==
  IF drainPc' = "awaiting"
  THEN CBExecute /\ awaited' = BreakerAnswer(cbLast')
  ELSE UNCHANGED cbVars /\ awaited' = "none"

\* execute(fn): the limiter's execute, and the breaker's where the limiter calls on.
PCExecuteMut ==
  /\ IF state = "open" /\ ~ShouldAttemptReset
     THEN /\ nextCall <= MaxCalls
          /\ nextCall' = nextCall + 1
          /\ callState' = [callState EXCEPT ![nextCall] = "running"]
          /\ UNCHANGED <<now, rlConfig, requests, queue, processing, drainPc, drainWake,
                         drainCall, admitLog>>
          /\ CBExecute
     ELSE /\ RLExecute
          /\ IF ReachesBreaker(callState'[nextCall]) THEN CBExecute ELSE UNCHANGED cbVars
  /\ UNCHANGED awaited
PCExecute ==
  /\ RLExecute
  /\ IF ReachesBreaker(callState'[nextCall]) THEN CBExecute ELSE UNCHANGED cbVars
  /\ UNCHANGED awaited

\* The timer of processQueue's sleep fires.
PCDrainWake ==
  /\ DrainWake
  /\ DrainEntersBreaker

\* fn() of a call the limiter's execute started settles: the breaker records it and
\* the caller has the outcome; the limiter is not involved.
PCSettleDirect(ok) ==
  /\ inflight > (IF awaited = "invoked" THEN 1 ELSE 0)
  /\ IF ok THEN CBSettleSuccess ELSE CBSettleFailure
  /\ UNCHANGED <<rlVars, awaited>>

\* fn() of the call processQueue awaits settles: the breaker records it.
PCSettleAwaited(ok) ==
  /\ awaited = "invoked"
  /\ IF ok THEN CBSettleSuccess ELSE CBSettleFailure
  /\ awaited' = IF ok THEN "resolved" ELSE "failed"
  /\ UNCHANGED rlVars

\* The promise processQueue awaits has settled: the loop hands the outcome to the
\* caller and goes round again.
PCDrainResumes ==
  /\ awaited \in {"rejected", "resolved", "failed"}
  /\ RLSettle(awaited = "resolved")
  /\ DrainEntersBreaker

\* resetCircuit()
PCResetCircuit ==
  /\ CBReset
  /\ UNCHANGED <<rlVars, awaited>>

\* A ProtectedClient whose limiter admits one call per window of the longest length,
\* with or without a queue, and whose breaker, of any failure threshold, tries again
\* one tick after a failure and closes at the first success.
PCInit ==
  /\ RLInit
  /\ rlConfig.maxRequests = 1
  /\ rlConfig.windowMs = MaxWindowTicks * TickMs
  /\ CBInit
  /\ cbConfig.resetTimeoutMs = TickMs
  /\ cbConfig.successThreshold = 1
  /\ awaited = "none"

PCIdle == awaited = "none"

(***************************************************************************)
(* FeedManager (src/src/data/feed-manager.ts, lines 40-291), for one feed   *)
(* key.  The client is seen through its interface: subscribeCandles sets    *)
(* the handler at once and resolves later (base.ts, lines 163-170),         *)
(* unsubscribeCandles deletes it at once and resolves later (lines          *)
(* 172-176), and a stream candle goes to the handler registered at the time.*)
(***************************************************************************)
NoFeed == [present |-> FALSE, backfillOnStart |-> FALSE, persistCandles |-> FALSE]
FeedConfigs == [present : {TRUE}, backfillOnStart : BOOLEAN, persistCandles : BOOLEAN]

FMFrame == UNCHANGED <<now, rlVars, cbVars, wsVars, bfVars, dbVars, pcVars, kxVars>>

\* addFeed(config)
AddFeed(config) ==
  /\ fmOps < MaxFmOps
  /\ fmOps' = fmOps + 1
  /\ IF feeds.present
     THEN \* 'Feed already exists'
          UNCHANGED <<feeds, addPc, removed>>
     ELSE /\ feeds' = config
          /\ removed' = FALSE
          /\ IF config.backfillOnStart
             THEN addPc = "idle" /\ addPc' = "backfilling"
             ELSE UNCHANGED addPc
  /\ UNCHANGED <<activeStreams, clientHandler, startPc, stopPc, handledAfterRemove,
                 handledDuringBackfill, conn>>
  /\ FMFrame

\* await this.backfill(...) in addFeed returns, the run having stored a page or not
\* (backfillCandles returns a result whether the run succeeded or failed).
BackfillReturns(wrote) ==
  /\ addPc = "backfilling"
  /\ addPc' = "idle"
  /\ IF wrote
     THEN PageWrite(<<VenueCandle(1)>>)
     ELSE UNCHANGED <<bfVars, dbVars>>
  /\ UNCHANGED <<feeds, activeStreams, clientHandler, startPc, stopPc, fmOps, removed,
                 handledAfterRemove, handledDuringBackfill, conn>>
  /\ UNCHANGED <<now, rlVars, cbVars, wsVars, pcVars, kxVars>>

\* startStream(symbol, timeframe) up to its await
StartStream ==
  /\ fmOps < MaxFmOps
  /\ fmOps' = fmOps + 1
  /\ IF ~feeds.present \/ activeStreams
     THEN \* throw new Error('Feed not found: ...') / 'Stream already active'
          UNCHANGED <<clientHandler, startPc, conn>>
     ELSE \* await this.client.subscribeCandles(..., (candle) => this.handleCandle(config, candle))
          /\ startPc = "idle"
          /\ clientHandler' = feeds
          /\ startPc' = "subscribing"
          /\ conn' = IF conn = "none" THEN "connecting" ELSE conn
  /\ UNCHANGED <<feeds, activeStreams, addPc, stopPc, removed, handledAfterRemove,
                 handledDuringBackfill>>
  /\ FMFrame

\* ws.on('open') of the socket the call created: subscribeCandles resolves,
\* this.activeStreams.add(key)
SubscribeResolves ==
  /\ startPc = "subscribing"
  /\ conn = "connecting"
  /\ conn' = "open"
  /\ startPc' = "idle"
  /\ activeStreams' = TRUE
  /\ UNCHANGED <<feeds, clientHandler, addPc, stopPc, fmOps, removed, handledAfterRemove,
                 handledDuringBackfill>>
  /\ FMFrame

\* subscribeCandles rejects (new WebSocket(url) throws): startStream rejects, the
\* handler stays with the client
SubscribeRejects ==
  /\ startPc = "subscribing"
  /\ conn = "connecting"
  /\ conn' = "none"
  /\ startPc' = "idle"
  /\ UNCHANGED <<feeds, activeStreams, clientHandler, addPc, stopPc, fmOps, removed,
                 handledAfterRemove, handledDuringBackfill>>
  /\ FMFrame

\* BinanceClient.connectWebSocket: the first connection attempt fails.  'error'
\* comes first and finds this.wsConnections.has(key), so reject is not called;
\* 'close' deletes the entry and handleReconnect sets a timer if the handler is
\* still registered.  The promise startStream awaits is left pending.
ConnectFails ==
  /\ conn = "connecting"
  /\ conn' = IF clientHandler.present THEN "retrying" ELSE "none"
  /\ UNCHANGED <<feeds, activeStreams, clientHandler, addPc, startPc, stopPc, fmOps, removed,
                 handledAfterRemove, handledDuringBackfill>>
  /\ UNCHANGED <<bfVars, dbVars>>
  /\ UNCHANGED <<now, rlVars, cbVars, wsVars, pcVars, kxVars>>

\* The timer of handleReconnect fires and the socket of its connectWebSocket call
\* opens: that call's promise resolves, in the timer callback.
ReconnectOpens ==
  /\ conn = "retrying"
  /\ conn' = "open"
  /\ UNCHANGED <<feeds, activeStreams, clientHandler, addPc, startPc, stopPc, fmOps, removed,
                 handledAfterRemove, handledDuringBackfill>>
  /\ UNCHANGED <<bfVars, dbVars>>
  /\ UNCHANGED <<now, rlVars, cbVars, wsVars, pcVars, kxVars>>

\* stopStream(symbol, timeframe) up to its await
StopStream ==
  /\ fmOps < MaxFmOps
  /\ fmOps' = fmOps + 1
  /\ IF ~activeStreams
     THEN UNCHANGED <<clientHandler, stopPc>>
     ELSE \* await this.client.unsubscribeCandles(symbol, timeframe)
          /\ stopPc = "idle"
          /\ clientHandler' = NoFeed
          /\ stopPc' = "stopStream"
  /\ UNCHANGED <<feeds, activeStreams, addPc, startPc, removed, handledAfterRemove,
                 handledDuringBackfill, conn>>
  /\ FMFrame

\* if (this.activeStreams.has(key)) in removeFeed
StreamIsActive == activeStreams

\* removeFeed(symbol, timeframe) up to its await, or to its end if it does not await
RemoveFeed ==
  /\ fmOps < MaxFmOps
  /\ fmOps' = fmOps + 1
  /\ IF StreamIsActive
     THEN \* await this.stopStream(symbol, timeframe)
          /\ stopPc = "idle"
          /\ clientHandler' = NoFeed
          /\ stopPc' = "removeFeed"
          /\ UNCHANGED <<feeds, removed, bfVars, dbVars>>
     ELSE \* this.feeds.delete(key); this.lastCandles.delete(key)
          /\ feeds' = NoFeed
          /\ lastCandles' = NoCandle
          /\ removed' = TRUE
          /\ UNCHANGED <<clientHandler, stopPc, bfVars, lastWritten, dbWrites, handled>>
  /\ UNCHANGED <<activeStreams, addPc, startPc, handledAfterRemove, handledDuringBackfill,
                 conn>>
  /\ UNCHANGED <<now, rlVars, cbVars, wsVars, pcVars, kxVars>>

\* unsubscribeCandles resolves (the socket closed): this.activeStreams.delete(key), and removeFeed, if it
\* is the caller, goes on to delete the feed and its last candle
UnsubscribeResolves ==
  /\ stopPc # "idle"
  /\ stopPc' = "idle"
  /\ activeStreams' = FALSE
  /\ conn' = "none"
  /\ IF stopPc = "removeFeed"
     THEN /\ feeds' = NoFeed
          /\ lastCandles' = NoCandle
          /\ removed' = TRUE
     ELSE UNCHANGED <<feeds, lastCandles, removed>>
  /\ UNCHANGED <<clientHandler, addPc, startPc, fmOps, handledAfterRemove,
                 handledDuringBackfill, bfVars, lastWritten, dbWrites, handled>>
  /\ UNCHANGED <<now, rlVars, cbVars, wsVars, pcVars, kxVars>>

\* The client passes a candle of the stream to the registered handler,
\* (candle) => this.handleCandle(config, candle); the stream delivers while its
\* socket is open.
StreamCandle ==
  /\ clientHandler.present
  /\ conn = "open"
  /\ HandleCandle(LiveCandle(1), clientHandler.persistCandles)
  /\ handledAfterRemove' = (handledAfterRemove \/ removed)
  /\ handledDuringBackfill' = (handledDuringBackfill \/ addPc = "backfilling")
  /\ UNCHANGED <<feeds, activeStreams, clientHandler, addPc, startPc, stopPc, fmOps,
                 removed, conn>>
  /\ UNCHANGED <<now, rlVars, cbVars, wsVars, pcVars, kxVars>>

FMInit ==
  /\ feeds = NoFeed
  /\ activeStreams = FALSE
  /\ clientHandler = NoFeed
  /\ addPc = "idle"
  /\ startPc = "idle"
  /\ stopPc = "idle"
  /\ fmOps = 0
  /\ removed = FALSE
  /\ handledAfterRemove = FALSE
  /\ handledDuringBackfill = FALSE
  /\ conn = "none"

FMIdle == FMInit

(***************************************************************************)
(* KrakenClient frame dispatch (src/src/exchange/kraken.ts, lines 70-200,  *)
(* 257-302, 364-372). A string is a sequence of tokens, so that includes,  *)
(* startsWith and replace are computed on the text of keys and pairs.      *)
(***************************************************************************)
\* Symbols a user subscribes to: BTC/USD, BTC/USDT (BTC/USD is a prefix), ETH/USD.
Symbols == {<<"BTC", "/", "USD">>, <<"BTC", "/", "USD", "T">>, <<"ETH", "/", "USD">>}
Timeframes == {"1m", "5m"}

\* const TIMEFRAME_KRAKEN_MAP
TIMEFRAME_KRAKEN_MAP == [tf \in Timeframes |-> IF tf = "1m" THEN "1" ELSE "5"]

\* String.prototype.includes
Includes(str, sub) ==
  \E i \in 1..(Len(str) - Len(sub) + 1) : SubSeq(str, i, i + Len(sub) - 1) = sub

\* String.prototype.startsWith
StartsWith(str, prefix) ==
  Len(str) >= Len(prefix) /\ SubSeq(str, 1, Len(prefix)) = prefix

\* String.prototype.replace(from, to) with a string pattern: the first occurrence.
ReplaceFirst(str, from, to) ==
  IF \E i \in 1..Len(str) : str[i] = from
  THEN LET i == CHOOSE i \in 1..Len(str) : str[i] = from /\ \A j \in 1..(i - 1) : str[j] # from
       IN [str EXCEPT ![i] = to]
  ELSE str

\* fromKrakenPair(pair)
fromKrakenPair(pair) == ReplaceFirst(pair, "XBT", "BTC")

\* The pair name the venue puts in its data frames for a symbol (XBT/USD for BTC/USD).
VenuePair(symbol) == ReplaceFirst(symbol, "BTC", "XBT")

\* `candle:${symbol}:${timeframe}` and `trade:${symbol}`
CandleKey(symbol, timeframe) == <<"candle", ":">> \o symbol \o <<":", timeframe>>
TradeKey(symbol) == <<"trade", ":">> \o symbol

\* A stream of the client: what the closure stored in this.subscriptions holds.
CandleStream(symbol, timeframe) ==
  [kind |-> "candle", symbol |-> symbol, timeframe |-> timeframe]
TradeStream(symbol) == [kind |-> "trade", symbol |-> symbol, timeframe |-> "none"]
KeyOf(stream) ==
  IF stream.kind = "candle" THEN CandleKey(stream.symbol, stream.timeframe)
  ELSE TradeKey(stream.symbol)
KrakenStreams ==
  {CandleStream(symbol, tf) : symbol \in Symbols, tf \in Timeframes}
    \cup {TradeStream(symbol) : symbol \in Symbols}

\* The data frame the venue sends for a stream: [channelID, data, channelName, pair].
FrameFor(stream) ==
  [channelName |-> IF stream.kind = "candle"
                   THEN <<"ohlc", "-", TIMEFRAME_KRAKEN_MAP[stream.timeframe]>>
                   ELSE <<"trade">>,
   pair |-> VenuePair(stream.symbol)]

NoStream == [kind |-> "none", symbol |-> <<>>, timeframe |-> "none"]

\* this.subscriptions.has(key)
HasSubscription(stream) == \E i \in 1..Len(krakenSubs) : krakenSubs[i] = stream

\* The test of the dispatch loop on one entry of this.subscriptions.
Matches(stream, frame) ==
  /\ Includes(KeyOf(stream), fromKrakenPair(frame.pair))
  /\ \/ StartsWith(KeyOf(stream), <<"candle", ":">>) /\ StartsWith(frame.channelName, <<"ohlc">>)
     \/ StartsWith(KeyOf(stream), <<"trade", ":">>) /\ frame.channelName = <<"trade">>

\* for (const [key, sub] of this.subscriptions) { if (...) { sub.handler(...); break } }
FindSubscription(subs, frame) ==
  IF \E i \in 1..Len(subs) : Matches(subs[i], frame)
  THEN LET i == CHOOSE i \in 1..Len(subs) :
                  Matches(subs[i], frame) /\ \A j \in 1..(i - 1) : ~Matches(subs[j], frame)
       IN subs[i]
  ELSE NoStream

KXFrame == UNCHANGED <<now, rlVars, cbVars, wsVars, bfVars, dbVars, pcVars, fmVars>>

\* startCandleStream / startTradeStream once the socket is connected
StartKrakenStream(stream) ==
  /\ ~HasSubscription(stream)
  /\ Len(krakenSubs) < MaxSubs
  /\ krakenSubs' = Append(krakenSubs, stream)
  /\ UNCHANGED <<lastFrame, delivered>>
  /\ KXFrame

\* stopCandleStream / stopTradeStream: this.subscriptions.delete(key)
StopKrakenStream(stream) ==
  /\ HasSubscription(stream)
  /\ krakenSubs' = SelectSeq(krakenSubs, LAMBDA s : s # stream)
  /\ UNCHANGED <<lastFrame, delivered>>
  /\ KXFrame

\* handleWebSocketMessage(data) for a data frame of a subscribed stream
HandleWebSocketMessage(stream) ==
  /\ HasSubscription(stream)
  /\ lastFrame' = stream
  /\ delivered' = FindSubscription(krakenSubs, FrameFor(stream))
  /\ UNCHANGED krakenSubs
  /\ KXFrame

KXInit ==
  /\ krakenSubs = <<>>
  /\ lastFrame = NoStream
  /\ delivered = NoStream

KXIdle == KXInit

(***************************************************************************)
(* Specifications                                                          *)
(***************************************************************************)
InitRL == now = StartTime /\ RLInit /\ CBIdle /\ WSIdle /\ BFIdle /\ DBIdle /\ PCIdle /\ FMIdle /\ KXIdle

NextRL ==
  \/ RLExecute /\ UNCHANGED <<cbVars, wsVars, bfVars, dbVars, pcVars, fmVars, kxVars>>
  \/ DrainWake /\ UNCHANGED <<cbVars, wsVars, bfVars, dbVars, pcVars, fmVars, kxVars>>
  \/ \E ok \in BOOLEAN : RLSettle(ok) /\ UNCHANGED <<cbVars, wsVars, bfVars, dbVars, pcVars, fmVars, kxVars>>
  \/ Tick /\ UNCHANGED <<rlVars, cbVars, wsVars, bfVars, dbVars, pcVars, fmVars, kxVars>>

SpecRL == InitRL /\ [][NextRL]_vars

\* The limiter with its timers firing, the calls it awaits settling and time passing.
SpecRLLive ==
  /\ InitRL
  /\ [][NextRL]_vars
  /\ WF_vars(DrainWake /\ UNCHANGED <<cbVars, wsVars, bfVars, dbVars, pcVars, fmVars, kxVars>>)
  /\ WF_vars(\E ok \in BOOLEAN :
               RLSettle(ok) /\ UNCHANGED <<cbVars, wsVars, bfVars, dbVars, pcVars, fmVars, kxVars>>)
  /\ WF_vars(Tick /\ UNCHANGED <<rlVars, cbVars, wsVars, bfVars, dbVars, pcVars, fmVars, kxVars>>)

InitCB == now = StartTime /\ CBInit /\ RLIdle /\ WSIdle /\ BFIdle /\ DBIdle /\ PCIdle /\ FMIdle /\ KXIdle

NextCB ==
  \/ CBExecute /\ UNCHANGED <<rlVars, wsVars, bfVars, dbVars, pcVars, fmVars, kxVars>>
  \/ CBSettleSuccess /\ UNCHANGED <<rlVars, wsVars, bfVars, dbVars, pcVars, fmVars, kxVars>>
  \/ CBSettleFailure /\ UNCHANGED <<rlVars, wsVars, bfVars, dbVars, pcVars, fmVars, kxVars>>
  \/ CBReset /\ UNCHANGED <<rlVars, wsVars, bfVars, dbVars, pcVars, fmVars, kxVars>>
  \/ CBGetState /\ UNCHANGED <<rlVars, wsVars, bfVars, dbVars, pcVars, fmVars, kxVars>>
  \/ Tick /\ UNCHANGED <<rlVars, cbVars, wsVars, bfVars, dbVars, pcVars, fmVars, kxVars>>

SpecCB == InitCB /\ [][NextCB]_vars

InitWS == now = StartTime /\ WSInit /\ RLIdle /\ CBIdle /\ BFIdle /\ DBIdle /\ PCIdle /\ FMIdle /\ KXIdle

NextWS ==
  \/ OnConnectionStatusChange /\ UNCHANGED <<now, rlVars, cbVars, bfVars, dbVars, pcVars, fmVars, kxVars>>
  \/ \E k \in StreamKeys : Subscribe(k) /\ UNCHANGED <<now, rlVars, cbVars, bfVars, dbVars, pcVars, fmVars, kxVars>>
  \/ \E k \in StreamKeys : Unsubscribe(k) /\ UNCHANGED <<now, rlVars, cbVars, bfVars, dbVars, pcVars, fmVars, kxVars>>
  \/ Close /\ UNCHANGED <<now, rlVars, cbVars, bfVars, dbVars, pcVars, fmVars, kxVars>>
  \/ \E s \in sockets : SocketOpens(s) /\ UNCHANGED <<now, rlVars, cbVars, bfVars, dbVars, pcVars, fmVars, kxVars>>
  \/ \E s \in sockets : SocketFails(s) /\ UNCHANGED <<now, rlVars, cbVars, bfVars, dbVars, pcVars, fmVars, kxVars>>
  \/ \E s \in sockets : ServerDrop(s) /\ UNCHANGED <<now, rlVars, cbVars, bfVars, dbVars, pcVars, fmVars, kxVars>>
  \/ \E s \in sockets : SocketClosed(s) /\ UNCHANGED <<now, rlVars, cbVars, bfVars, dbVars, pcVars, fmVars, kxVars>>
  \/ \E t \in timers : ReconnectTimerFires(t) /\ UNCHANGED <<now, rlVars, cbVars, bfVars, dbVars, pcVars, fmVars, kxVars>>

SpecWS == InitWS /\ [][NextWS]_vars

InitBF == now = BfStartTime /\ BFInit /\ RLIdle /\ CBIdle /\ WSIdle /\ DBIdle /\ PCIdle /\ FMIdle /\ KXIdle

NextBF ==
  \/ BackfillStart /\ UNCHANGED <<now, rlVars, cbVars, wsVars, dbVars, pcVars, fmVars, kxVars>>
  \/ FetchReturns /\ UNCHANGED <<now, rlVars, cbVars, wsVars, dbVars, pcVars, fmVars, kxVars>>
  \/ FetchFails /\ UNCHANGED <<now, rlVars, cbVars, wsVars, dbVars, pcVars, fmVars, kxVars>>
  \/ UpsertFails /\ UNCHANGED <<now, rlVars, cbVars, wsVars, dbVars, pcVars, fmVars, kxVars>>
  \/ SleepDone /\ UNCHANGED <<now, rlVars, cbVars, wsVars, dbVars, pcVars, fmVars, kxVars>>
  \/ BFTick /\ UNCHANGED <<rlVars, cbVars, wsVars, bfVars, dbVars, pcVars, fmVars, kxVars>>

SpecBF == InitBF /\ [][NextBF]_vars

\* Forward and backward backfill runs of one feed, in any order.
NextBW ==
  \/ BackfillStart /\ UNCHANGED <<now, rlVars, cbVars, wsVars, dbVars, pcVars, fmVars, kxVars>>
  \/ FetchReturns /\ UNCHANGED <<now, rlVars, cbVars, wsVars, dbVars, pcVars, fmVars, kxVars>>
  \/ FetchFails /\ UNCHANGED <<now, rlVars, cbVars, wsVars, dbVars, pcVars, fmVars, kxVars>>
  \/ UpsertFails /\ UNCHANGED <<now, rlVars, cbVars, wsVars, dbVars, pcVars, fmVars, kxVars>>
  \/ SleepDone /\ UNCHANGED <<now, rlVars, cbVars, wsVars, dbVars, pcVars, fmVars, kxVars>>
  \/ BackwardStart /\ UNCHANGED <<now, rlVars, cbVars, wsVars, dbVars, pcVars, fmVars, kxVars>>
  \/ BackwardFetchReturns /\ UNCHANGED <<now, rlVars, cbVars, wsVars, dbVars, pcVars, fmVars, kxVars>>
  \/ BackwardFetchFails /\ UNCHANGED <<now, rlVars, cbVars, wsVars, dbVars, pcVars, fmVars, kxVars>>
  \/ BackwardUpsertFails /\ UNCHANGED <<now, rlVars, cbVars, wsVars, dbVars, pcVars, fmVars, kxVars>>
  \/ BackwardSleepDone /\ UNCHANGED <<now, rlVars, cbVars, wsVars, dbVars, pcVars, fmVars, kxVars>>

SpecBW == InitBF /\ [][NextBW]_vars

\* Forward backfill against a venue that may answer a fetch with any page.
NextBV ==
  \/ BackfillStart /\ UNCHANGED <<now, rlVars, cbVars, wsVars, dbVars, pcVars, fmVars, kxVars>>
  \/ \E page \in AnyPages(bfOptions.batchSize) :
       /\ totalFetched < MaxFetched
       /\ PageArrives(page)
       /\ UNCHANGED <<now, rlVars, cbVars, wsVars, dbVars, pcVars, fmVars, kxVars>>
  \/ FetchFails /\ UNCHANGED <<now, rlVars, cbVars, wsVars, dbVars, pcVars, fmVars, kxVars>>
  \/ SleepDone /\ UNCHANGED <<now, rlVars, cbVars, wsVars, dbVars, pcVars, fmVars, kxVars>>

InitBV ==
  /\ now = BfStartTime
  /\ \E rows \in InitialRows, opts \in BackfillOptionSets : BFInitFor({}, rows, opts)
  /\ RLIdle /\ CBIdle /\ WSIdle /\ DBIdle /\ PCIdle /\ FMIdle /\ KXIdle

SpecBV == InitBV /\ [][NextBV]_vars

InitDB ==
  /\ now = BfStartTime
  /\ \E rows \in InitialRows :
       /\ BFInitFor({}, rows, [since |-> Null, until |-> Null, batchSize |-> 1])
       /\ DBInitFor(rows)
  /\ RLIdle /\ CBIdle /\ WSIdle /\ PCIdle /\ FMIdle /\ KXIdle

NextDB ==
  \/ \E t \in Grid, persistCandles \in BOOLEAN :
       HandleCandle(LiveCandle(t), persistCandles) /\ UNCHANGED <<now, rlVars, cbVars, wsVars, pcVars, fmVars, kxVars>>
  \/ \E page \in Pages : PageWrite(page) /\ UNCHANGED <<now, rlVars, cbVars, wsVars, pcVars, fmVars, kxVars>>

SpecDB == InitDB /\ [][NextDB]_vars

InitPC == now = StartTime /\ PCInit /\ WSIdle /\ BFIdle /\ DBIdle /\ FMIdle /\ KXIdle

NextPC ==
  \/ PCExecute /\ UNCHANGED <<wsVars, bfVars, dbVars, fmVars, kxVars>>
  \/ PCDrainWake /\ UNCHANGED <<wsVars, bfVars, dbVars, fmVars, kxVars>>
  \/ \E ok \in BOOLEAN : PCSettleDirect(ok) /\ UNCHANGED <<wsVars, bfVars, dbVars, fmVars, kxVars>>
  \/ \E ok \in BOOLEAN : PCSettleAwaited(ok) /\ UNCHANGED <<wsVars, bfVars, dbVars, fmVars, kxVars>>
  \/ PCDrainResumes /\ UNCHANGED <<wsVars, bfVars, dbVars, fmVars, kxVars>>
  \/ PCResetCircuit /\ UNCHANGED <<wsVars, bfVars, dbVars, fmVars, kxVars>>
  \/ Tick /\ UNCHANGED <<rlVars, cbVars, wsVars, bfVars, dbVars, pcVars, fmVars, kxVars>>

SpecPC == InitPC /\ [][NextPC]_vars

InitFM ==
  /\ now = BfStartTime
  /\ BFInitFor({}, <<>>, [since |-> Null, until |-> Null, batchSize |-> 1])
  /\ DBInitFor(<<>>)
  /\ FMInit
  /\ RLIdle /\ CBIdle /\ WSIdle /\ PCIdle /\ KXIdle

NextFM ==
  \/ \E config \in FeedConfigs : AddFeed(config)
  \/ \E wrote \in BOOLEAN : BackfillReturns(wrote)
  \/ StartStream
  \/ SubscribeResolves
  \/ SubscribeRejects
  \/ ConnectFails
  \/ ReconnectOpens
  \/ StopStream
  \/ RemoveFeed
  \/ UnsubscribeResolves
  \/ StreamCandle

SpecFM == InitFM /\ [][NextFM]_vars

\* ---- KrakenClient frame dispatch
InitKX ==
  /\ now = StartTime
  /\ KXInit
  /\ RLIdle /\ CBIdle /\ WSIdle /\ BFIdle /\ DBIdle /\ PCIdle /\ FMIdle

NextKX ==
  \/ \E stream \in KrakenStreams : StartKrakenStream(stream)
  \/ \E stream \in KrakenStreams : StopKrakenStream(stream)
  \/ \E stream \in KrakenStreams : HandleWebSocketMessage(stream)

SpecKX == InitKX /\ [][NextKX]_vars

(***************************************************************************)
(* Claims                                                                  *)
(***************************************************************************)
\* The admissions whose timestamp lies in the right-open window [a, a + windowMs).
AdmittedIn(a) ==
  {i \in 1..Len(admitLog) : a <= admitLog[i][2] /\ admitLog[i][2] < a + rlConfig.windowMs}

\* C1: with maxRequests >= 1 and windowMs > 0, no sliding window of length windowMs
\* holds more than maxRequests admission timestamps, whether the admission was made
\* by execute or by processQueue.
C1_WindowCeiling ==
  (rlConfig.maxRequests >= 1 /\ rlConfig.windowMs > 0)
    => \A a \in 0..MaxTime : Cardinality(AdmittedIn(a)) <= rlConfig.maxRequests

\* A queued call was admitted by processQueue after the window had been full.
C1_Witness ==
  /\ rlConfig.windowMs > 0
  /\ Len(admitLog) > rlConfig.maxRequests
  /\ \E i \in 1..Len(admitLog) : admitLog[i][3] = "processQueue"
  /\ \E a \in 0..MaxTime : Cardinality(AdmittedIn(a)) = rlConfig.maxRequests

\* A wrapped call settles with a failure / a success in this step.
FailureStep == inflight' = inflight - 1 /\ cbLast'.op = "failure"
SuccessStep == inflight' = inflight - 1 /\ cbLast'.op = "success"
ExecuteStep == cbCalls' = cbCalls + 1

\* C2: a closed breaker opens exactly at the failure that brings the number of
\* failures with no success in between to failureThreshold; below it the breaker
\* stays closed, and a success while closed sets the failure count to zero.
C2_OpensAtThreshold ==
  [][/\ (state = "closed" /\ FailureStep)
          => (state' = "open" <=> consecFailures' >= cbConfig.failureThreshold)
     /\ (state = "closed" /\ FailureStep /\ consecFailures' < cbConfig.failureThreshold)
          => state' = "closed"
     /\ (state = "closed" /\ SuccessStep) => (failures' = 0 /\ state' = "closed")
     /\ (state = "closed" /\ state' = "open") => FailureStep
     /\ state' = "closed" => consecFailures' < cbConfig.failureThreshold]_vars

\* The second of two failures in a row has opened a breaker of threshold 2.
C2_Witness ==
  /\ cbConfig.failureThreshold = 2
  /\ state = "open"
  /\ consecFailures = 2
  /\ cbLast = [op |-> "failure", outcome |-> "closed"]

\* C3: an execute on an open breaker made strictly before resetTimeoutMs has elapsed
\* since the last failure is rejected, invokes nothing and changes no field.
C3_OpenRejects ==
  [][(ExecuteStep /\ state = "open" /\ now - lastFailure < cbConfig.resetTimeoutMs)
       => /\ cbLast' = [op |-> "execute", outcome |-> "rejected_open"]
          /\ invocations' = invocations
          /\ inflight' = inflight
          /\ UNCHANGED <<state, failures, successes, lastFailure>>]_vars

\* An execute was rejected some time after the failure, before the timeout.
C3_Witness ==
  /\ state = "open"
  /\ cbLast = [op |-> "execute", outcome |-> "rejected_open"]
  /\ now > lastFailure
  /\ now - lastFailure < cbConfig.resetTimeoutMs

\* C4 (as claimed): a failure while half-open always leaves the breaker open.
C4_HalfOpenFailureOpens ==
  [][(state = "half-open" /\ FailureStep) => state' = "open"]_vars

\* C5 (as claimed): once the successes seen since half-open was entered reach
\* successThreshold the breaker is closed, so it is never half-open with that many.
C5_ClosesAtSuccessThreshold ==
  state = "half-open" => hoSuccesses < cbConfig.successThreshold

\* C6: between two successful opens at most maxReconnectAttempts connections are
\* opened by reconnect timers, the k-th timer is set with delay
\* reconnectDelay * 2^(k-1); when handleReconnect gives up the status is
\* disconnected, a registered status handler is told so, and from then on (until a
\* connection opens) no reconnect timer is set.
C6_ReconnectBudget ==
  [][/\ attemptsMade' <= maxReconnectAttempts
     /\ \A t \in timers' \ timers : /\ t.nth <= maxReconnectAttempts
                                   /\ t.delay = reconnectDelay * Pow2(t.nth - 1)
     /\ exhausted' => connectionStatus' = "disconnected"
     /\ (exhausted' /\ ~exhausted /\ statusHandlers /\ connectionStatus # "disconnected")
          => lastNotified' = "disconnected"
     /\ (exhausted /\ exhausted') => timers' \subseteq timers]_vars

\* Ten reconnect attempts have failed in a row and the client has given up.
C6_Witness ==
  /\ exhausted
  /\ attemptsMade = maxReconnectAttempts
  /\ connectionStatus = "disconnected"
  /\ lastNotified = "disconnected"
  /\ timers = {}
  /\ sockets = {}

\* C7 (as claimed): a connection opened by a reconnect carries a subscribe frame for
\* every subscription active when it opened.
C7_ReplayOnReconnect ==
  \A s \in sockets : (s.st = "open" /\ s.origin = "reconnect") => s.missed = {}

\* C8 (as claimed): a reconnect timer opens a connection only for a subscription
\* that is still active when it fires.
C8_ReconnectOnlyActive ==
  \A s \in sockets : s.origin = "reconnect" => s.forActive

\* C9 (as claimed): once close() has completed, no reconnect timer opens a connection.
C9_NoReconnectAfterClose ==
  \A s \in sockets : ~(s.origin = "reconnect" /\ s.afterClose)

\* The statistics the repository reports for the candles table.
Stats(rows) ==
  <<getOldestCandleTimestamp(rows), getNewestCandleTimestamp(rows), getCandleCount(rows)>>

\* The table one uninterrupted run of backfillCandles leaves behind.
RECURSIVE RunPages(_, _, _, _)
RunPages(rows, since, until, batchSize) ==
  IF ~(since < until) THEN rows
  ELSE LET page == FetchOHLCV(venueCandles, since, batchSize)
       IN IF page = <<>> THEN rows
          ELSE RunPages(upsertCandles(rows, page),
                        page[Len(page)].timestamp + TIMEFRAME_MS, until, batchSize)
BackfillOnce(rows, opts, until) ==
  RunPages(rows, StartingPoint(rows, opts.since, until), until, opts.batchSize)

\* C10 (as claimed): when backfillCandles has run two or more times with the same
\* options and the last run succeeded, the oldest timestamp, newest timestamp and
\* candle count are those one uninterrupted run from the initial table leaves, and
\* those every earlier successful run reported.  The earlier runs succeeded or
\* failed; a run that failed before writing anything is covered when all runs used
\* the same until.
C10_BackfillIdempotent ==
  (/\ bfPc = "idle"
   /\ Len(runLog) >= 2
   /\ runLog[Len(runLog)].success
   /\ \/ \A i \in 1..Len(runLog) : runLog[i].until = runLog[1].until
      \/ \A i \in 1..(Len(runLog) - 1) : runLog[i].success \/ runLog[i].wrote)
  => /\ Stats(candles) = Stats(BackfillOnce(candles0, bfOptions, runLog[1].until))
     /\ \A i \in 1..Len(runLog) :
          runLog[i].success =>
            <<runLog[i].oldestCandle, runLog[i].newestCandle, runLog[i].count>>
              = Stats(candles)

\* C11: the candles table holds at most one row per timestamp, and the row of a
\* timestamp carries the values of the latest write for it, whether that write came
\* from a backfill page or from the live stream.
C11_UpsertUnique ==
  \A t \in Grid :
    /\ Cardinality({i \in 1..Len(candles) : candles[i].timestamp = t}) <= 1
    /\ lastWritten[t] # Null =>
         \E i \in 1..Len(candles) :
           candles[i] = [timestamp |-> t, close |-> lastWritten[t]]

\* A row written before was overwritten by a backfill page and then by the live stream.
C11_Witness ==
  /\ dbWrites = 2
  /\ candles0 # <<>>
  /\ Len(candles) = 1
  /\ candles[1] = LiveCandle(candles0[1].timestamp)
  /\ lastCandles = candles[1]

\* A step in which a backfill run ends with a failure result.
RunFailsStep ==
  /\ Len(runLog') = Len(runLog) + 1
  /\ ~runLog'[Len(runLog')].success

C13_WithinUntil ==
  (/\ bfPc = "idle"
   /\ candles0 = <<>>
   /\ Len(runLog) = 1
   /\ runLog[1].success
   /\ bfOptions.since = Null
   /\ bfOptions.until # Null)
  => LET T == bfOptions.until
         inRange == {t \in venueCandles : T - HorizonMs <= t /\ t < T}
     IN /\ inRange \subseteq Timestamps(candles)
        /\ inRange # {} => runLog[1].oldestCandle = MinOf(inRange)
        /\ runLog[1].newestCandle <= T
        /\ \A i \in 1..Len(candles) : candles[i].timestamp <= T

\* The admissions still inside the sliding window at time t.
AdmissionsInWindow(t) ==
  {i \in 1..Len(admitLog) : t - admitLog[i][2] < rlConfig.windowMs}

\* C14: with queueRequests disabled, an execute call arriving while maxRequests
\* admissions are inside the window is rejected with 'Rate limit exceeded', is not
\* invoked and records no timestamp; a call arriving under the ceiling runs at once.
C14_RejectWithoutQueue ==
  [][(nextCall' = nextCall + 1 /\ ~rlConfig.queueRequests) =>
       IF Cardinality(AdmissionsInWindow(now)) >= rlConfig.maxRequests
       THEN /\ callState'[nextCall] = "rejected_limit"
            /\ admitLog' = admitLog
            /\ Len(requests') <= Len(requests)
            /\ \A i \in 1..Len(requests') : requests'[i] # now \/ now \in SeqToSet(requests)
       ELSE /\ callState'[nextCall] = "running"
            /\ admitLog' = Append(admitLog, <<nextCall, now, "execute">>)
            /\ requests'[Len(requests')] = now]_vars

\* Without a queue, a call was rejected over the limit and a later one, arriving after
\* the window had moved on, ran.
C14_Witness ==
  /\ ~rlConfig.queueRequests
  /\ \E c, d \in 1..MaxCalls :
       /\ c < d
       /\ callState[c] = "rejected_limit"
       /\ callState[d] = "running"

\* C15: a ProtectedClient.execute call the rate limiter rejects (limit exceeded or
\* queue full) never reaches the circuit breaker: the breaker's state, failure
\* count, success count and last-failure time are unchanged, and no wrapped call is
\* invoked.
C15_RejectionSkipsBreaker ==
  [][(nextCall' = nextCall + 1
        /\ callState'[nextCall] \in {"rejected_limit", "rejected_full"})
      => /\ UNCHANGED <<state, failures, successes, lastFailure>>
         /\ UNCHANGED <<invocations, inflight, cbCalls>>]_vars

\* The limiter rejected a call while the breaker had a failure on record, and the
\* breaker still has exactly that record.
C15_Witness ==
  /\ \E c \in 1..MaxCalls : callState[c] \in {"rejected_limit", "rejected_full"}
  /\ failures > 0
  /\ lastFailure # 0
  /\ cbCalls < nextCall - 1

\* C16: the passage of time alone never changes the breaker's state; open becomes
\* half-open only in an execute made when at least resetTimeoutMs has elapsed since
\* the last recorded failure, and that execute invokes the wrapped function as the
\* trial; nothing else but reset leaves open, and getState changes no field.
C16_LazyHalfOpen ==
  [][/\ now' # now => UNCHANGED <<state, failures, successes, lastFailure>>
     /\ cbLast'.op = "getState"
          => /\ UNCHANGED <<state, failures, successes, lastFailure>>
             /\ cbLast'.outcome = state
     /\ (state # "half-open" /\ state' = "half-open")
          => /\ state = "open"
             /\ ExecuteStep
             /\ lastFailure # 0
             /\ now - lastFailure >= cbConfig.resetTimeoutMs
             /\ invocations' = invocations + 1
             /\ inflight' = inflight + 1
     /\ (state = "open" /\ state' # "open")
          => (state' = "half-open" \/ cbLast'.op = "reset")
     /\ (ExecuteStep /\ state = "open" /\ now - lastFailure >= cbConfig.resetTimeoutMs)
          => state' = "half-open"]_vars

\* An open breaker was looked at after its reset timeout had elapsed and is still
\* open.
C16_Witness ==
  /\ state = "open"
  /\ cbLast = [op |-> "getState", outcome |-> "open"]
  /\ now - lastFailure >= cbConfig.resetTimeoutMs

\* reset() runs in this step.
ResetStep == cbLast'.op = "reset" /\ cbLast.op # "reset"

\* C17: from any reachable state reset() leaves the breaker closed with failure
\* count 0, success count 0 and no last-failure time, and an execute made in the
\* state reset leaves invokes the wrapped function.
C17_ResetCloses ==
  [][/\ ResetStep
          => /\ state' = "closed"
             /\ failures' = 0
             /\ successes' = 0
             /\ lastFailure' = 0
     /\ (cbLast.op = "reset" /\ ExecuteStep)
          => /\ cbLast' = [op |-> "execute", outcome |-> "invoked"]
             /\ invocations' = invocations + 1
             /\ inflight' = inflight + 1
             /\ state' = "closed"]_vars

\* A breaker that had been open (it has rejected a call) was reset, and an execute
\* after the reset has invoked the wrapped function.
C17_Witness ==
  /\ cbCalls > invocations
  /\ lastFailure = 0
  /\ state = "closed"
  /\ cbLast = [op |-> "execute", outcome |-> "invoked"]

\* C18: with queueRequests on and maxQueueSize = N >= 1 the queue never holds more
\* than N calls; a call that arrives at the ceiling while N calls wait is rejected
\* with 'Rate limit queue full', is not enqueued and is not invoked.
C18_QueueBound ==
  [][(rlConfig.queueRequests /\ rlConfig.maxQueueSize >= 1)
       => /\ Len(queue') <= rlConfig.maxQueueSize
          /\ (/\ nextCall' = nextCall + 1
              /\ Cardinality(AdmissionsInWindow(now)) >= rlConfig.maxRequests
              /\ Len(queue) = rlConfig.maxQueueSize)
               => /\ callState'[nextCall] = "rejected_full"
                  /\ queue' = queue
                  /\ admitLog' = admitLog
                  /\ \A c \in 1..MaxCalls : c # nextCall => callState'[c] = callState[c]]_vars

\* A call found the queue at its bound and was rejected; the queue is still full.
C18_Witness ==
  /\ rlConfig.queueRequests
  /\ rlConfig.maxQueueSize >= 1
  /\ Len(queue) = rlConfig.maxQueueSize
  /\ \E c \in 1..MaxCalls : /\ callState[c] = "rejected_full"
                            /\ \A i \in 1..Len(queue) : queue[i] < c

\* The connections subscribe calls have opened that are open or being opened.
SubscribeConnections ==
  {s \in sockets : s.origin = "subscribe" /\ s.st \in {"connecting", "open"}}

\* C19 (as claimed): subscribe calls issued together on a shared-connection client
\* with no open connection open exactly one connection: at no point is more than one
\* WebSocket opened by a subscribe call open or being opened.
C19_OneSharedConnection ==
  venue = "kraken" => Cardinality(SubscribeConnections) <= 1

\* C20 (as claimed): a stream client holds at most one live venue connection however
\* many candle and trade subscriptions are active.
C20_OneLiveConnection ==
  Cardinality({s \in sockets : s.st = "open"}) <= 1

\* The key has a handler registered and no subscribe call for it is still waiting for
\* its connection to open.
AlreadySubscribed(k) ==
  /\ HasHandler(k, candleHandlers, tradeHandlers)
  /\ venue = "kraken" => StreamActive(k, subscriptions)
  /\ ~\E s \in sockets : s.origin = "subscribe" /\ s.st = "connecting" /\ k \in {s.key, s.waiter}

\* A subscribe call for a key whose handler is already registered runs in this step.
ResubscribeStep ==
  /\ userOps' = userOps + 1
  /\ candleHandlers' = candleHandlers
  /\ tradeHandlers' = tradeHandlers
  /\ candleHandlers \cup tradeHandlers # {}
  /\ statusHandlers' = statusHandlers

\* C21 (as claimed): subscribing again for a key that is already subscribed is a
\* no-op: no connection is opened for the key, no subscribe frame is sent, and the
\* handlers, the subscription set and the connection status stay as they were.
C21_DuplicateSubscribeNoOp ==
  [][\A k \in StreamKeys :
       (ResubscribeStep /\ AlreadySubscribed(k))
         => /\ \A s \in sockets' \ sockets : k \notin {s.key, s.waiter} \cup s.sent
            /\ subscriptions' = subscriptions
            /\ connectionStatus' = connectionStatus]_vars

\* C22 (as claimed): once removeFeed has completed, also when it overlapped a
\* startStream in flight, the feed has no entry in feeds, activeStreams or
\* lastCandles, and no candle is handled for it any more.
C22_RemovedFeedIsGone ==
  removed => /\ ~feeds.present
             /\ ~activeStreams
             /\ lastCandles = NoCandle
             /\ ~handledAfterRemove

\* C23 (as claimed): no stream candle of a feed is handled while the backfill that
\* addFeed triggered for it has not returned.
C23_BackfillBeforeStream ==
  ~handledDuringBackfill

\* The timestamps a step adds to the candles table.
NewlyPersisted == Timestamps(candles') \ Timestamps(candles)

\* A timestamp the run in progress has persisted before this step: the newest of the
\* previous page for a forward run (currentSince is one bar past it), the oldest of
\* the previous page for a backward run (currentUntil).
PersistedBefore ==
  IF bfPc \in {"fetchingBack", "sleepingBack"} THEN currentUntil
  ELSE currentSince - TIMEFRAME_MS

\* C24 (as claimed): during a backfill run, forward or backward, candles are
\* persisted in non-decreasing timestamp order across the whole run: a page written
\* after another page of the run holds no candle older than what that page wrote.
C24_NonDecreasingOrder ==
  [][(totalFetched > 0 /\ bfPc # "idle")
       => \A t \in NewlyPersisted : t >= PersistedBefore]_vars

\* backfillCandles begins in this step (called directly or by backfillBackwards).
ForwardStartStep ==
  /\ bfPc = "idle"
  /\ bfUntil' # Null
  /\ totalFetched' = 0
  /\ bfPc' = "fetching" \/ Len(runLog') = Len(runLog) + 1

\* The starting cursor as claimed: an explicit since, whatever its value; else one
\* bar after the newest stored candle; else 365 days before until.
ClaimedStart(rows, since, until) ==
  IF since # Null THEN since
  ELSE IF rows # <<>> THEN getNewestCandleTimestamp(rows) + TIMEFRAME_MS
  ELSE until - HorizonMs

\* C25 (as claimed): backfillCandles starts at the explicit since for every value of
\* it, including 0; without one at newestPersisted + one bar if a candle is stored,
\* and otherwise at until - 365 days, until defaulting to now.
C25_StartingCursor ==
  [][ForwardStartStep
       => /\ bfUntil' = (IF bfOptions.until = Null THEN now ELSE bfOptions.until)
          /\ currentSince' = ClaimedStart(candles, bfOptions.since, bfUntil')]_vars

\* C26 (as claimed): with windowMs = 0, once a call has been admitted every further
\* call that arrives in the same instant is not admitted.
C26_ZeroWindowRejects ==
  [][(/\ rlConfig.windowMs = 0
      /\ nextCall' = nextCall + 1
      /\ \E i \in 1..Len(admitLog) : admitLog[i][2] = now)
       => /\ callState'[nextCall] # "running"
          /\ admitLog' = admitLog]_vars

\* execute puts its call in the queue in this step.
EnqueueStep == nextCall' = nextCall + 1 /\ Len(queue') = Len(queue) + 1

\* C27: at most one drain loop is active per limiter: the processing flag is set
\* exactly while the one loop is suspended in its sleep or its await, and an execute
\* that enqueues while the loop is active starts no second pass: the loop stays
\* where it is suspended.
C27_SingleDrainLoop ==
  [][/\ processing' <=> drainPc' \in {"sleeping", "awaiting"}
     /\ (EnqueueStep /\ processing)
          => UNCHANGED <<processing, drainPc, drainWake, drainCall, requests, admitLog>>
     /\ (EnqueueStep /\ ~processing) => processing']_vars

\* A call was enqueued while the loop was awaiting the queued call it had started.
C27_Witness ==
  /\ processing
  /\ drainPc = "awaiting"
  /\ callState[drainCall] = "running"
  /\ \E i \in 1..Len(queue) : queue[i] > drainCall /\ callState[queue[i]] = "queued"

\* execute is called at the ceiling of a limiter that queues.
CeilingStep ==
  /\ rlConfig.queueRequests
  /\ nextCall' = nextCall + 1
  /\ Cardinality(AdmissionsInWindow(now)) >= rlConfig.maxRequests

C29_FifoAdmission ==
  [][\A c \in 1..MaxCalls :
       (callState[c] # "running" /\ callState'[c] = "running" /\ queue # <<>>)
          => c = Head(queue)]_vars

\* C30: the breaker's counters are reset on every transition: on entering
\* half-open and on entering closed both counts are zero, the success count is
\* non-zero only while half-open, and the failure count is below failureThreshold
\* whenever the state is closed.
C30_CountersResetOnTransition ==
  /\ [](successes # 0 => state = "half-open")
  /\ [](state = "closed" => failures < cbConfig.failureThreshold)
  /\ [][(state' # state /\ state' \in {"half-open", "closed"})
          => (failures' = 0 /\ successes' = 0)]_vars

\* The call let through by the last execute, in or into the half-open state, has
\* not settled yet.
TrialInFlight ==
  /\ state = "half-open"
  /\ inflight > 0
  /\ cbLast = [op |-> "execute", outcome |-> "invoked"]

\* C31: while the breaker is half-open only one trial call is let through at a
\* time: an execute that arrives while the trial call is in flight does not invoke
\* its wrapped function.
C31_SingleTrialCall ==
  [][(TrialInFlight /\ cbCalls' = cbCalls + 1) => invocations' = invocations]_vars

\* C32: every inbound frame is dispatched only to the handler registered for the
\* frame's own stream: a candle frame to the handler of its symbol and interval, a
\* trade frame to the trade handler of its symbol.
C32_FrameReachesOwnHandler ==
  lastFrame # NoStream => delivered = lastFrame

\* C33: in every step of a backward run the rows written (new, or changed) have a
\* timestamp strictly below the current floor, so rows at or after the floor stay
\* as they are; a page persisted in full lowers the floor strictly, to the oldest
\* row of the table; and a run that ends without an exception ends on a page with
\* no candle older than the floor (an empty page included) or, after a page, when
\* the floor has reached the target; otherwise the loop goes on.
C33_OnlyOlderThanFloor ==
  [][(bfPc \in {"fetchingBack", "sleepingBack"}) =>
       (/\ Len(candles') >= Len(candles)
        /\ \A i \in 1..Len(candles') :
             (i > Len(candles) \/ candles'[i] # candles[i])
                => (candles'[i].timestamp < currentUntil)
        /\ currentUntil' <= currentUntil
        /\ (bfPc' = "sleepingBack")
             => (/\ Len(candles') > Len(candles)
                 /\ currentUntil' < currentUntil
                 /\ currentUntil' = getOldestCandleTimestamp(candles'))
        /\ (bfPc = "fetchingBack" /\ bfPc' = "idle" /\ ~RunFailsStep)
             => (/\ candles' = candles
                 /\ \A j \in 1..Len(BackwardPage) : BackwardPage[j].timestamp >= currentUntil)
        /\ (bfPc = "sleepingBack" /\ bfPc' = "idle") => (currentUntil <= targetSince)
        /\ (bfPc = "sleepingBack" /\ currentUntil > targetSince)
             => (bfPc' = "fetchingBack"))]_vars

\* A backward run met a page holding the floor's own candle next to older ones,
\* persisted the older ones only, and went on to end with the stale row at the
\* floor it started from untouched.
C33_Witness ==
  /\ bfPc = "idle"
  /\ Len(runLog) = 1 /\ runLog[1].success /\ runLog[1].wrote
  /\ currentUntil # Null
  /\ candles0 # <<>>
  /\ candles[1] = candles0[1]
  /\ bfOptions.batchSize = 2
  /\ candles0[1].timestamp \in venueCandles
  /\ (candles0[1].timestamp - 1) \notin venueCandles
  /\ (candles0[1].timestamp - 2) \in venueCandles
  /\ \E i \in 2..Len(candles) : candles[i].timestamp = candles0[1].timestamp - 2

\* C34: in a backfill run the inter-page delay is awaited between every two
\* consecutive page fetches (no page is followed at once by the next fetch) and is
\* not awaited after the final page (no run returns straight out of the delay), in
\* forward and in backward backfill.
C34_DelayBetweenPages ==
  [][/\ ~(bfPc = "fetching" /\ bfPc' = "fetching")
     /\ ~(bfPc = "fetchingBack" /\ bfPc' = "fetchingBack")
     /\ ~(bfPc \in {"sleeping", "sleepingBack"} /\ bfPc' = "idle")]_vars

\* Position of a step in the last handleCandle call (0: the step was not performed).
StepAt(name) ==
  IF \E i \in 1..Len(handled.steps) : handled.steps[i] = name
  THEN CHOOSE i \in 1..Len(handled.steps) : handled.steps[i] = name
  ELSE 0

\* C35: for every candle delivered, handleCandle updates the last-known candle, then
\* upserts the candle if and only if persistCandles is set, then publishes the
\* 'candle' event, then invokes onCandle if the feed has one, each step once; and
\* getLastCandle returns that candle until the next delivery; the row of a
\* persisted candle is in the table when the call returns.
HandledInOrder ==
  handled # NoHandled =>
    /\ StepAt("lastCandles.set") = 1
    /\ (StepAt("upsertCandles") # 0) <=> handled.persistCandles
    /\ StepAt("upsertCandles") \in {0, 2}
    /\ StepAt("eventBus.emit") = (IF handled.persistCandles THEN 3 ELSE 2)
    /\ (StepAt("config.onCandle") # 0) <=> handled.onCandle
    /\ handled.onCandle => StepAt("config.onCandle") = Len(handled.steps)
    /\ Len(handled.steps) = 2 + (IF handled.persistCandles THEN 1 ELSE 0)
                              + (IF handled.onCandle THEN 1 ELSE 0)
    /\ lastCandles = handled.candle

C36_CursorAdvances ==
  [][(bfPc = "fetching" /\ bfPc' \in {"fetching", "sleeping"})
        => currentSince' > currentSince]_vars

\* C37: the subscribeCandles call of startStream settles also when the first
\* connection attempt fails and a later reconnect succeeds: whenever the stream's
\* socket is open and candles are delivered to the feed's handler, startStream has
\* returned and, unless a stop is under way, the feed is recorded as streaming.
C37_SubscribeSettles ==
  (conn = "open" /\ clientHandler.present)
    => (startPc = "idle" /\ (stopPc = "idle" => activeStreams))

\* A step in which a backfill run returns.
RunReturnsStep == Len(runLog') = Len(runLog) + 1

\* C38: whenever backfillCandles or backfillBackwards returns, the sync status is
\* idle or error, never syncing (so it is never syncing while no run is under way);
\* when the run returns success, the status is idle and its oldest, newest and
\* candle count are those of the candles table at that moment, as is the result.
C38_StatusOnReturn ==
  /\ [](bfPc = "idle" => syncStatus.status # "syncing")
  /\ [][RunReturnsStep =>
          /\ bfPc' = "idle"
          /\ syncStatus'.status \in {"idle", "error"}
          /\ (syncStatus'.status = "idle") <=> runLog'[Len(runLog')].success
          /\ runLog'[Len(runLog')].success =>
               /\ <<syncStatus'.oldestCandle, syncStatus'.newestCandle,
                    syncStatus'.candleCount>> = Stats(candles')
               /\ <<runLog'[Len(runLog')].oldestCandle, runLog'[Len(runLog')].newestCandle>>
                    = <<getOldestCandleTimestamp(candles'), getNewestCandleTimestamp(candles')>>]_vars

\* A run failed after writing a page, and the next run, a backward one that wrote
\* older candles, returned success with the status matching the table.
C38_Witness ==
  /\ bfPc = "idle"
  /\ Len(runLog) = 2
  /\ ~runLog[1].success /\ runLog[1].wrote
  /\ runLog[2].success /\ runLog[2].wrote
  /\ currentUntil # Null
  /\ syncStatus.status = "idle"
  /\ syncStatus.candleCount = Len(candles)
  /\ Len(candles) >= 3

\* C39: an updateSyncStatus call that supplies only the status and the error
\* message (the 'syncing' and 'error' updates of the backfill) leaves the stored
\* candle count, oldest and newest timestamps and last-synced time as they were.
C39_PartialKeepsFields ==
  [][(syncStatus.status # "none" /\ syncStatus' # syncStatus
        /\ syncStatus'.status \in {"syncing", "error"})
       => /\ syncStatus'.candleCount = syncStatus.candleCount
          /\ syncStatus'.oldestCandle = syncStatus.oldestCandle
          /\ syncStatus'.newestCandle = syncStatus.newestCandle
          /\ syncStatus'.lastSyncedAt = syncStatus.lastSyncedAt]_vars

\* The breaker rejects a call because it is open.
OpenRejectionStep ==
  /\ cbCalls' = cbCalls + 1
  /\ cbLast' = [op |-> "execute", outcome |-> "rejected_open"]

\* C40: a ProtectedClient.execute call rejected because the breaker is open has
\* been admitted by the rate limiter in the same step: the limiter logs the
\* admission and its timestamp is the newest of the window, which holds one more
\* entry than the unexpired ones before, although no wrapped call is invoked.
C40_OpenRejectionUsesSlot ==
  [][OpenRejectionStep =>
       /\ invocations' = invocations
       /\ inflight' = inflight
       /\ Len(admitLog') = Len(admitLog) + 1
       /\ admitLog'[Len(admitLog')][2] = now
       /\ callState'[admitLog'[Len(admitLog')][1]] = "running"
       /\ requests' = Append(InWindow(requests, now), now)]_vars

\* The open breaker rejected a call the limiter had admitted, and the next call, in
\* the same window, found the limiter at its ceiling.
C40_Witness ==
  /\ state = "open"
  /\ cbLast = [op |-> "execute", outcome |-> "rejected_open"]
  /\ Len(admitLog) > invocations
  /\ requests # <<>>
  /\ \E c \in 1..MaxCalls :
       /\ callState[c] \in {"rejected_limit", "queued"}
       /\ c > admitLog[Len(admitLog)][1]
====
